---- MODULE Spec2Model ----
(***************************************************************************)
(* Model of the strategy back-testing kernel of the financial-markets MCP  *)
(* server (src/server/strategies/performance_tools.py):                    *)
(*   - calculate_strategy_performance_metrics, the shared backtest         *)
(*     evaluator;                                                          *)
(*   - analyze_dual_ma_strategy, the edge-triggered crossover generator;   *)
(*   - generate_comprehensive_analysis_report, the consensus aggregator,   *)
(*     and the STRATEGY_FUNCTIONS registry the add_*_tool functions fill.  *)
(*   - analyze_bollinger_fibonacci_performance,                            *)
(*     analyze_macd_donchian_performance and                               *)
(*     analyze_connors_zscore_performance, the three score-based tools.    *)
(*                                                                         *)
(* Numbers.  pandas computes in IEEE doubles.  The model computes in exact *)
(* rationals extended with NaN and +/-Inf: a number is a pair <<n, d>>,    *)
(* d > 0 for a finite value in lowest terms, <<0, 0>> for NaN, <<1, 0>>    *)
(* and <<-1, 0>> for +Inf and -Inf.  Rounding is not modelled.  A standard *)
(* deviation is carried as its square (the variance), and a Sharpe ratio   *)
(* as its signed square sgn(x) * x^2, so that both stay rational; zero,    *)
(* sign, NaN and Inf are those of the value itself.                        *)
(***************************************************************************)
EXTENDS Integers, Sequences, FiniteSets, TLC

(***************************************************************************)
(* Bounds of the model.                                                    *)
(***************************************************************************)
MaxBars == 3
MaxPrice == 2
MaxPeriod == 3
MaxMABars == 4
MaxToolBars == 3
MaxLevel == 3

(***************************************************************************)
(* Extended rational arithmetic.                                           *)
(***************************************************************************)
NaN == <<0, 0>>
PosInf == <<1, 0>>
NegInf == <<-1, 0>>

Abs(n) == IF n < 0 THEN -n ELSE n

Sgn(n) == IF n > 0 THEN 1 ELSE IF n < 0 THEN -1 ELSE 0

RECURSIVE GCD(_, _)
GCD(a, b) == IF b = 0 THEN a ELSE GCD(b, a % b)

\* The number n/d as a float division would give it: 0/0 is NaN, x/0 is +/-Inf.
Make(n, d) ==
    IF d = 0 THEN <<Sgn(n), 0>>
    ELSE LET g == GCD(Abs(n), Abs(d))
             s == IF d < 0 THEN -1 ELSE 1
         IN  <<(s * n) \div g, (s * d) \div g>>

R(n) == <<n, 1>>

IsNaN(x) == x = NaN

IsInf(x) == x[2] = 0 /\ x[1] # 0

IsFinite(x) == x[2] > 0

Neg(x) == <<-x[1], x[2]>>

Add(x, y) ==
    IF IsNaN(x) \/ IsNaN(y) THEN NaN
    ELSE IF IsInf(x) /\ IsInf(y) THEN (IF x = y THEN x ELSE NaN)
    ELSE IF IsInf(x) THEN x
    ELSE IF IsInf(y) THEN y
    ELSE LET g == GCD(x[2], y[2])
         IN  Make(x[1] * (y[2] \div g) + y[1] * (x[2] \div g), (x[2] \div g) * y[2])

Sub(x, y) == Add(x, Neg(y))

Mul(x, y) ==
    IF x[2] = 0 \/ y[2] = 0 THEN Make(x[1] * y[1], 0)
    ELSE LET g == GCD(Abs(x[1]), y[2])
             h == GCD(Abs(y[1]), x[2])
         IN  Make((x[1] \div g) * (y[1] \div h), (x[2] \div h) * (y[2] \div g))

Recip(x) == <<x[2] * Sgn(x[1]), Abs(x[1])>>

Div(x, y) == Mul(x, Recip(y))

\* x < y; every comparison with NaN is false.
Less(x, y) ==
    IF IsNaN(x) \/ IsNaN(y) THEN FALSE
    ELSE IF IsInf(x) /\ IsInf(y) THEN x[1] < y[1]
    ELSE IF IsInf(x) \/ IsInf(y) THEN x[1] * y[2] < y[1] * x[2]
    ELSE LET g == GCD(x[2], y[2])
         IN  x[1] * (y[2] \div g) < y[1] * (x[2] \div g)

Greater(x, y) == Less(y, x)

LessEq(x, y) == ~IsNaN(x) /\ ~IsNaN(y) /\ ~Less(y, x)

GreaterEq(x, y) == LessEq(y, x)

(***************************************************************************)
(* pandas Series operations, on sequences of numbers.                      *)
(***************************************************************************)
NotNa(xs) == SelectSeq(xs, LAMBDA x : ~IsNaN(x))

RECURSIVE SumSeq(_)
SumSeq(xs) == IF xs = <<>> THEN R(0) ELSE Add(Head(xs), SumSeq(Tail(xs)))

\* Series.mean(): NaN skipped, NaN when nothing is left.
Mean(xs) ==
    LET v == NotNa(xs)
    IN  IF Len(v) = 0 THEN NaN ELSE Div(SumSeq(v), R(Len(v)))

\* Series.std() squared: the sample variance (ddof = 1), NaN skipped, NaN
\* with fewer than two values.
Variance(xs) ==
    LET v == NotNa(xs)
        m == Mean(xs)
        sq == [i \in 1..Len(v) |-> Mul(Sub(v[i], m), Sub(v[i], m))]
    IN  IF Len(v) < 2 THEN NaN ELSE Div(SumSeq(sq), R(Len(v) - 1))

\* Series.shift(1)
Shift1(xs) == [i \in 1..Len(xs) |-> IF i = 1 THEN NaN ELSE xs[i - 1]]

\* Series.pct_change()
PctChange(xs) ==
    [i \in 1..Len(xs) |-> IF i = 1 THEN NaN ELSE Sub(Div(xs[i], xs[i - 1]), R(1))]

\* Series.fillna(v)
FillNa(xs, v) == [i \in 1..Len(xs) |-> IF IsNaN(xs[i]) THEN v ELSE xs[i]]

\* Series.replace(0, np.nan)
Replace0NaN(xs) == [i \in 1..Len(xs) |-> IF xs[i] = R(0) THEN NaN ELSE xs[i]]

\* Series.ffill(): a NaN takes the last value before it that is not NaN.
RECURSIVE FFill(_)
FFill(xs) ==
    IF Len(xs) <= 1 THEN xs
    ELSE LET init == FFill(SubSeq(xs, 1, Len(xs) - 1))
             last == xs[Len(xs)]
         IN  Append(init, IF IsNaN(last) THEN init[Len(init)] ELSE last)

\* Series.cumprod()
RECURSIVE CumProd(_)
CumProd(xs) ==
    IF Len(xs) <= 1 THEN xs
    ELSE LET init == CumProd(SubSeq(xs, 1, Len(xs) - 1))
         IN  Append(init, Mul(init[Len(init)], xs[Len(xs)]))

\* Series.cummax()
RECURSIVE CumMax(_)
CumMax(xs) ==
    IF Len(xs) <= 1 THEN xs
    ELSE LET init == CumMax(SubSeq(xs, 1, Len(xs) - 1))
             prev == init[Len(init)]
             last == xs[Len(xs)]
         IN  Append(init, IF Less(prev, last) THEN last ELSE prev)

\* Series.min(): NaN skipped, NaN when nothing is left.
SeriesMin(xs) ==
    LET v == NotNa(xs)
    IN  IF Len(v) = 0 THEN NaN
        ELSE CHOOSE m \in {v[i] : i \in 1..Len(v)} :
                 \A i \in 1..Len(v) : ~Less(v[i], m)

(***************************************************************************)
(* The state.                                                              *)
(*   data      the caller's price/signal table handed to the evaluator     *)
(*   frame     the evaluator's private copy with its derived columns       *)
(*   metrics   what the evaluator call produced                            *)
(*   STRATEGY_FUNCTIONS  the module-level registry: key -> tool function   *)
(*   analysis  what generate_comprehensive_analysis_report produced        *)
(*   dual_ma   what analyze_dual_ma_strategy produced                      *)
(*   tool_run  what a call of one of the three score-based strategy tools  *)
(*             produced                                                    *)
(*   requests  the comprehensive analyses being served, one per request    *)
(*   returned  what a further call of the evaluator on the same table      *)
(*             returned                                                    *)
(*   wire      the tool call a client wrapper of tools.py has sent, and    *)
(*             what the server tool bound from it                          *)
(*   session   the fields of the MCPFinanceSession object                  *)
(*   event_loop  the event loops created, each with its ready queue        *)
(*   threads   where each calling thread is inside call_tool or close      *)
(*   statement what a call of _download_statement was given and returned   *)
(***************************************************************************)
VARIABLES data, frame, metrics, STRATEGY_FUNCTIONS, analysis, dual_ma, tool_run,
          requests, returned, wire, session, event_loop, threads, statement

vars == <<data, frame, metrics, STRATEGY_FUNCTIONS, analysis, dual_ma, tool_run,
          requests, returned, wire, session, event_loop, threads, statement>>

\* The values of a signal column: 'BUY', 'SELL', or None.
Signals == {"BUY", "SELL", "NONE"}

Prices == 1..MaxPrice

\* Every table of n rows, n in lens: Close > 0, one signal per row.
Tables(lens) ==
    UNION {[Close : [1..n -> Prices], Signal : [1..n -> Signals]] : n \in lens}

NoFrame == [kind |-> "none"]

NoMetrics == [kind |-> "none"]

TRADING_DAYS == 252

(***************************************************************************)
(* calculate_strategy_performance_metrics, step by step.                   *)
(***************************************************************************)
CloseSeries(d) == [i \in 1..Len(d.Close) |-> R(d.Close[i])]

\* A position column with the two directions swapped.
RawPositionInverted(signal) ==
    [i \in 1..Len(signal) |->
        IF signal[i] = "BUY" THEN R(-1)
        ELSE IF signal[i] = "SELL" THEN R(1)
        ELSE R(0)]

\* data['Position'] = 0; = 1 where BUY; = -1 where SELL
RawPosition(signal) ==
    [i \in 1..Len(signal) |->
        IF signal[i] = "BUY" THEN R(1)
        ELSE IF signal[i] = "SELL" THEN R(-1)
        ELSE R(0)]

\* A position column that is not forward-filled.
PositionNoFfill(signal) == RawPosition(signal)

\* A position column whose leading gap is filled with 1 instead of 0.
PositionLeadingLong(signal) == FillNa(FFill(Replace0NaN(RawPosition(signal))), R(1))

\* data['Position'].replace(0, np.nan).ffill().fillna(0)
Position(signal) == FillNa(FFill(Replace0NaN(RawPosition(signal))), R(0))

\* The strategy return taken with the same bar's position (look-ahead).
StrategyReturnNoShift(position, daily) ==
    [i \in 1..Len(daily) |-> Mul(position[i], daily[i])]

\* data['Position'].shift(1) * data['Daily_Return']
StrategyReturn(position, daily) ==
    [i \in 1..Len(daily) |-> Mul(Shift1(position)[i], daily[i])]

\* A cumulative value that adds the returns instead of compounding them.
CumulativeAdditive(returns) ==
    [i \in 1..Len(returns) |->
        Add(R(1), SumSeq(SubSeq(FillNa(returns, R(0)), 1, i)))]

\* (1 + returns.fillna(0)).cumprod()
Cumulative(returns) ==
    CumProd([i \in 1..Len(returns) |-> Add(R(1), FillNa(returns, R(0))[i])])

\* The derived columns of the evaluator's copy of the table.
BacktestFrame(d) ==
    LET daily == PctChange(CloseSeries(d))
        position == Position(d.Signal)
        strat == StrategyReturn(position, daily)
    IN  [kind |-> "frame",
         Close |-> d.Close,
         Signal |-> d.Signal,
         Daily_Return |-> daily,
         Position |-> position,
         Strategy_Return |-> strat,
         Cumulative_Strategy |-> Cumulative(strat),
         Cumulative_BuyHold |-> Cumulative(daily)]

\* returns.std() * np.sqrt(252), squared
Volatility2(returns) == Mul(Variance(returns), R(TRADING_DAYS))

SignedSquare(x) == Mul(x, <<Abs(x[1]), x[2]>>)

\* The ratio computed without the zero-volatility guard.
SharpeUnguarded(returns) ==
    Div(SignedSquare(Mul(Mean(returns), R(TRADING_DAYS))), Volatility2(returns))

\* (returns.mean() * 252) / volatility if volatility > 0 else 0, signed square
Sharpe(returns) ==
    IF Greater(Volatility2(returns), R(0))
    THEN Div(SignedSquare(Mul(Mean(returns), R(TRADING_DAYS))), Volatility2(returns))
    ELSE R(0)

\* The drawdown reported as a magnitude: the largest fall from the running
\* maximum, as a positive fraction of it.
MaxDrawdownMagnitude(cum) ==
    LET cmax == CumMax(cum)
    IN  Neg(SeriesMin([i \in 1..Len(cum) |-> Div(Sub(cum[i], cmax[i]), cmax[i])]))

\* ((cum - cum.cummax()) / cum.cummax()).min()
MaxDrawdown(cum) ==
    LET cmax == CumMax(cum)
    IN  SeriesMin([i \in 1..Len(cum) |-> Div(Sub(cum[i], cmax[i]), cmax[i])])

\* data[data[signal_column].isin(['BUY', 'SELL'])]: the row numbers kept.
TradeRows(d) ==
    SelectSeq([i \in 1..Len(d.Signal) |-> i],
              LAMBDA i : d.Signal[i] \in {"BUY", "SELL"})

\* Trade statistics that count the signal rows instead of the trades.
TradeStatsCountRows(d) ==
    LET rows == TradeRows(d)
        tclose == [j \in 1..Len(rows) |-> R(d.Close[rows[j]])]
        tret == PctChange(tclose)
        winning == Cardinality({j \in 1..Len(rows) : Greater(tret[j], R(0))})
    IN  IF Len(rows) > 1
        THEN [win_rate |-> Div(R(winning), R(Len(rows))),
              total_trades |-> Len(rows),
              avg_trade_return |-> Mean(tret)]
        ELSE [win_rate |-> R(0), total_trades |-> 0, avg_trade_return |-> R(0)]

\* The win-rate block: trades, Trade_Return, winning_trades, total_trades.
TradeStats(d) ==
    LET rows == TradeRows(d)
        tclose == [j \in 1..Len(rows) |-> R(d.Close[rows[j]])]
        tret == PctChange(tclose)
        winning == Cardinality({j \in 1..Len(rows) : Greater(tret[j], R(0))})
        total == Len(rows) - 1
    IN  IF Len(rows) > 1
        THEN [win_rate |-> IF total > 0 THEN Div(R(winning), R(total)) ELSE R(0),
              total_trades |-> total,
              avg_trade_return |-> Mean(tret)]
        ELSE [win_rate |-> R(0), total_trades |-> 0, avg_trade_return |-> R(0)]

\* The call's outcome: the metrics dict, or the IndexError that .iloc[-1]
\* raises on an empty column.
calculate_strategy_performance_metrics(d) ==
    LET f == BacktestFrame(d)
        n == Len(d.Close)
        trades == TradeStats(d)
    IN  IF n = 0 THEN [kind |-> "raise", exc |-> "IndexError"]
        ELSE [kind |-> "metrics",
              strategy_return |-> Sub(f.Cumulative_Strategy[n], R(1)),
              buyhold_return |-> Sub(f.Cumulative_BuyHold[n], R(1)),
              excess_return |-> Sub(Sub(f.Cumulative_Strategy[n], R(1)),
                                    Sub(f.Cumulative_BuyHold[n], R(1))),
              strategy_volatility2 |-> Volatility2(f.Strategy_Return),
              buyhold_volatility2 |-> Volatility2(f.Daily_Return),
              strategy_sharpe |-> Sharpe(f.Strategy_Return),
              buyhold_sharpe |-> Sharpe(f.Daily_Return),
              strategy_max_drawdown |-> MaxDrawdown(f.Cumulative_Strategy),
              buyhold_max_drawdown |-> MaxDrawdown(f.Cumulative_BuyHold),
              win_rate |-> trades.win_rate,
              total_trades |-> trades.total_trades,
              avg_trade_return |-> trades.avg_trade_return,
              trading_days |-> n]

(***************************************************************************)
(* The evaluator called on a table.  Every caller in the module returns    *)
(* "Error: No data found" before the call when the table is empty, so the  *)
(* tables of Spec have at least one row; SpecAnyTable applies the function *)
(* to every table, the empty one included.                                 *)
(***************************************************************************)
Evaluate ==
    /\ metrics = NoMetrics
    /\ metrics' = calculate_strategy_performance_metrics(data)
    /\ frame' = BacktestFrame(data)
    /\ UNCHANGED <<data, STRATEGY_FUNCTIONS, analysis, dual_ma, tool_run,
                   requests, returned, wire, session, event_loop, threads, statement>>

EmptyRegistry == [k \in {} |-> ""]

NoAnalysis == [kind |-> "none"]

NoDualMA == [kind |-> "none"]

EmptyTable == [Close |-> <<>>, Signal |-> <<>>]

EvaluatorIdle == data = EmptyTable /\ frame = NoFrame /\ metrics = NoMetrics

RegistryIdle == STRATEGY_FUNCTIONS = EmptyRegistry /\ analysis = NoAnalysis

DualMAIdle == dual_ma = NoDualMA

NoToolRun == [kind |-> "none"]

ToolsIdle == tool_run = NoToolRun

\* No analysis request is in progress and no call has returned.
NoRequests == <<>>

NoReturned == <<>>

ServingIdle == requests = NoRequests /\ returned = NoReturned

\* MCPFinanceSession.__init__: the fields of a session that was never started.
NewSession ==
    [_session |-> "None", _loop |-> 0, _thread |-> 0, _lock |-> 0,
     _started |-> FALSE, _ready_event |-> FALSE, _shutdown_event |-> "None",
     _lifecycle_future |-> 0]

NoLoops == <<>>

NoThreads == <<>>

NoWire == [kind |-> "none"]

ClientIdle ==
    /\ session = NewSession
    /\ event_loop = NoLoops
    /\ threads = NoThreads
    /\ wire = NoWire

NoStatement == [kind |-> "none"]

StatementIdle == statement = NoStatement

Init ==
    /\ data \in Tables(1..MaxBars)
    /\ frame = NoFrame
    /\ metrics = NoMetrics
    /\ RegistryIdle
    /\ DualMAIdle
    /\ ToolsIdle
    /\ ServingIdle
    /\ ClientIdle
    /\ StatementIdle

Next == Evaluate

Spec == Init /\ [][Next]_vars

InitAnyTable ==
    /\ data \in Tables(0..MaxBars)
    /\ frame = NoFrame
    /\ metrics = NoMetrics
    /\ RegistryIdle
    /\ DualMAIdle
    /\ ToolsIdle
    /\ ServingIdle
    /\ ClientIdle
    /\ StatementIdle

NextAnyTable == Evaluate

SpecAnyTable == InitAnyTable /\ [][NextAnyTable]_vars

(***************************************************************************)
(* Claims about the backtest evaluator.                                    *)
(***************************************************************************)
Evaluated == metrics.kind # "none"

Returned == metrics.kind = "metrics"

Bars == 1..Len(data.Close)

\* C1: the strategy return at bar t is position[t-1] * daily_return[t]: at
\* the first bar it is undefined whatever the first signal is, and two signal
\* series that agree on every bar before u (so differ only at bar u or later)
\* give the same strategy return on every bar up to and including u.
C1_NoLookahead ==
    Evaluated =>
        /\ \A t \in Bars :
              frame.Strategy_Return[t] =
                  IF t = 1 THEN NaN
                  ELSE Mul(frame.Position[t - 1], frame.Daily_Return[t])
        /\ \A other \in [Bars -> Signals] :
              LET agree == {u \in Bars : \A i \in 1..(u - 1) : other[i] = data.Signal[i]}
                  alt == StrategyReturn(Position(other), frame.Daily_Return)
              IN  \A u \in agree : frame.Strategy_Return[u] = alt[u]

\* C1 witness: a BUY on the last bar, the bar on which the price rose, and no
\* signal before it: the bar of the BUY earned nothing.
C1_Witness ==
    /\ Evaluated
    /\ Len(data.Close) = MaxBars
    /\ data.Signal[MaxBars] = "BUY"
    /\ \A i \in 1..(MaxBars - 1) : data.Signal[i] = "NONE"
    /\ data.Close[MaxBars] > data.Close[MaxBars - 1]
    /\ frame.Position[MaxBars] = R(1)
    /\ frame.Strategy_Return[MaxBars] = R(0)

\* C2: the position is FLAT (0) before the first BUY/SELL row, +1 on a BUY
\* row, -1 on a SELL row, and the previous bar's value on every other row.
C2_StickyPosition ==
    Evaluated =>
        \A t \in Bars :
            frame.Position[t] =
                IF data.Signal[t] = "BUY" THEN R(1)
                ELSE IF data.Signal[t] = "SELL" THEN R(-1)
                ELSE IF t = 1 THEN R(0)
                ELSE frame.Position[t - 1]

\* C2 witness: a BUY followed by rows without a signal, still LONG at the end.
C2_Witness ==
    /\ Evaluated
    /\ Len(data.Close) = MaxBars
    /\ data.Signal[1] = "NONE"
    /\ data.Signal[2] = "BUY"
    /\ \A i \in 3..MaxBars : data.Signal[i] = "NONE"
    /\ frame.Position[1] = R(0)
    /\ frame.Position[MaxBars] = R(1)

\* C5 (as claimed): the evaluator called on an empty price series returns a
\* metrics record with trading_days = 0 and every numeric field 0 or
\* undefined, and does not raise.
C5_EmptySeriesGivesZeroMetrics ==
    (Evaluated /\ Len(data.Close) = 0) =>
        /\ metrics.kind = "metrics"
        /\ metrics.trading_days = 0
        /\ metrics.total_trades = 0
        /\ \A f \in {"strategy_return", "buyhold_return", "excess_return",
                     "strategy_volatility2", "buyhold_volatility2",
                     "strategy_sharpe", "buyhold_sharpe",
                     "strategy_max_drawdown", "buyhold_max_drawdown",
                     "win_rate", "avg_trade_return"} :
              metrics[f] \in {R(0), NaN}

ConstantPrice == \A i \in Bars : data.Close[i] = data.Close[1]

\* C6 (as claimed): a Sharpe ratio is 0 whenever its volatility is 0, a
\* constant-price series has strategy volatility 0 and Sharpe 0, and a Sharpe
\* ratio is never NaN or infinite.
C6_AsClaimed ==
    Returned =>
        /\ (metrics.strategy_volatility2 = R(0) => metrics.strategy_sharpe = R(0))
        /\ (metrics.buyhold_volatility2 = R(0) => metrics.buyhold_sharpe = R(0))
        /\ (ConstantPrice =>
                metrics.strategy_volatility2 = R(0) /\ metrics.strategy_sharpe = R(0))
        /\ IsFinite(metrics.strategy_sharpe)
        /\ IsFinite(metrics.buyhold_sharpe)

\* C6 (amended): a Sharpe ratio is 0 whenever its volatility is 0 or
\* undefined and is never NaN or infinite; a constant-price series has
\* Sharpe 0, with strategy volatility 0 when it has at least 3 bars and an
\* undefined volatility when it has fewer (the sample standard deviation of
\* fewer than two returns).
C6_SharpeGuard ==
    Returned =>
        /\ (metrics.strategy_volatility2 \in {R(0), NaN} => metrics.strategy_sharpe = R(0))
        /\ (metrics.buyhold_volatility2 \in {R(0), NaN} => metrics.buyhold_sharpe = R(0))
        /\ (ConstantPrice =>
                /\ metrics.strategy_sharpe = R(0)
                /\ metrics.buyhold_sharpe = R(0)
                /\ metrics.strategy_volatility2 =
                       (IF Len(data.Close) >= 3 THEN R(0) ELSE NaN)
                /\ metrics.buyhold_volatility2 =
                       (IF Len(data.Close) >= 3 THEN R(0) ELSE NaN))
        /\ IsFinite(metrics.strategy_sharpe)
        /\ IsFinite(metrics.buyhold_sharpe)

\* C6 witness: a constant-price series of 3 bars with a position taken was
\* evaluated, with volatility 0 and Sharpe 0.
C6_Witness ==
    /\ Returned
    /\ Len(data.Close) >= 3
    /\ ConstantPrice
    /\ data.Signal[1] = "BUY"
    /\ metrics.strategy_volatility2 = R(0)
    /\ metrics.strategy_sharpe = R(0)

\* The rows that carry a BUY or a SELL, and the pairs of consecutive ones.
SignalRows == {i \in Bars : data.Signal[i] \in {"BUY", "SELL"}}

TradePairs ==
    {p \in SignalRows \X SignalRows :
        p[1] < p[2] /\ ~\E m \in SignalRows : p[1] < m /\ m < p[2]}

RECURSIVE SumPairReturns(_)
SumPairReturns(P) ==
    IF P = {} THEN R(0)
    ELSE LET p == CHOOSE q \in P : TRUE
         IN  Add(Make(data.Close[p[2]] - data.Close[p[1]], data.Close[p[1]]),
                 SumPairReturns(P \ {p}))

\* C7: with k BUY/SELL rows, k < 2 gives win_rate = 0, total_trades = 0 and
\* avg_trade_return = 0; k >= 2 gives total_trades = k - 1, win_rate the
\* fraction of the k-1 close-to-close changes between consecutive signal rows
\* that are positive, and avg_trade_return their mean.
C7_TradeStatistics ==
    Returned =>
        LET k == Cardinality(SignalRows)
            wins == {p \in TradePairs : data.Close[p[2]] > data.Close[p[1]]}
        IN  IF k < 2
            THEN /\ metrics.win_rate = R(0)
                 /\ metrics.total_trades = 0
                 /\ metrics.avg_trade_return = R(0)
            ELSE /\ metrics.total_trades = k - 1
                 /\ Cardinality(TradePairs) = k - 1
                 /\ metrics.win_rate = Make(Cardinality(wins), k - 1)
                 /\ metrics.avg_trade_return = Div(SumPairReturns(TradePairs), R(k - 1))

\* C7 witness: three signal rows, one winning and one losing trade.
C7_Witness ==
    /\ Returned
    /\ Cardinality(SignalRows) = 3
    /\ metrics.total_trades = 2
    /\ metrics.win_rate = Make(1, 2)
    /\ metrics.avg_trade_return # R(0)

\* C8: without any BUY or SELL row the position is 0 on every bar,
\* total_trades, win_rate and avg_trade_return are 0, the strategy's total
\* return is 0 and excess_return = -buyhold_return.
C8_NoTrades ==
    (Returned /\ SignalRows = {}) =>
        /\ \A t \in Bars : frame.Position[t] = R(0)
        /\ metrics.total_trades = 0
        /\ metrics.win_rate = R(0)
        /\ metrics.avg_trade_return = R(0)
        /\ metrics.strategy_return = R(0)
        /\ metrics.excess_return = Neg(metrics.buyhold_return)

\* C8 witness: a series without signals whose price moved was evaluated.
C8_Witness ==
    /\ Returned
    /\ SignalRows = {}
    /\ Len(data.Close) = MaxBars
    /\ metrics.buyhold_return # R(0)
    /\ metrics.excess_return = Neg(metrics.buyhold_return)

\* C16: when the first bar carries BUY and no later bar carries SELL, the
\* strategy return equals the buy-and-hold daily return on every bar (both
\* undefined on the first), so strategy_return = buyhold_return and
\* excess_return = 0.
C16_BuyAndHoldEquivalence ==
    (/\ Returned
     /\ data.Signal[1] = "BUY"
     /\ \A t \in Bars : data.Signal[t] # "SELL")
        => /\ \A t \in Bars : frame.Strategy_Return[t] = frame.Daily_Return[t]
           /\ \A t \in Bars : frame.Position[t] = R(1)
           /\ metrics.strategy_return = metrics.buyhold_return
           /\ metrics.excess_return = R(0)

\* C16 witness: a single BUY on the first bar, held while the close doubles
\* without ever falling: both totals are +100%.
C16_Witness ==
    /\ Returned
    /\ Len(data.Close) = MaxBars
    /\ data.Signal[1] = "BUY"
    /\ \A t \in Bars \ {1} : data.Signal[t] = "NONE"
    /\ \A t \in Bars \ {1} : data.Close[t] >= data.Close[t - 1]
    /\ data.Close[MaxBars] = 2 * data.Close[1]
    /\ metrics.strategy_return = R(1)
    /\ metrics.buyhold_return = R(1)

\* C19: buyhold_return is close[last] / close[first] - 1, which is the
\* compounding of the daily returns with the undefined first one taken as 0.
C19_BuyHoldRoundTrip ==
    Returned =>
        LET n == Len(data.Close)
            daily == [t \in Bars |->
                         IF t = 1 THEN R(0)
                         ELSE Make(data.Close[t] - data.Close[t - 1], data.Close[t - 1])]
            growth == [t \in Bars |-> Add(R(1), daily[t])]
        IN  /\ metrics.buyhold_return = Sub(Make(data.Close[n], data.Close[1]), R(1))
            /\ metrics.buyhold_return = Sub(CumProd(growth)[n], R(1))
            /\ frame.Cumulative_BuyHold[n] = Make(data.Close[n], data.Close[1])

\* C19 witness: a series that falls and then rises back, so that the daily
\* returns do not add up to the total return.
C19_Witness ==
    /\ Returned
    /\ Len(data.Close) = MaxBars
    /\ data.Close[MaxBars - 1] < data.Close[MaxBars - 2]
    /\ data.Close[MaxBars] > data.Close[MaxBars - 1]
    /\ metrics.buyhold_return = Sub(Make(data.Close[MaxBars], data.Close[1]), R(1))

(***************************************************************************)
(* The registry and the comprehensive analysis.                            *)
(*                                                                         *)
(* A tool's report is a sequence of labelled lines; the lines the          *)
(* aggregator's two patterns look for are "Current Signal: <word>" and     *)
(* "STRATEGY VERDICT: <rest of line>".  An error report has neither.       *)
(***************************************************************************)
ToolOf ==
    [bollinger_zscore |-> "analyze_bollinger_zscore_performance",
     bollinger_fibonacci |-> "analyze_bollinger_fibonacci_performance",
     macd_donchian |-> "analyze_macd_donchian_performance",
     connors_zscore |-> "analyze_connors_zscore_performance",
     dual_ma |-> "analyze_dual_ma_strategy"]

\* STRATEGY_FUNCTIONS[key] = tool
Register(key) ==
    /\ analysis = NoAnalysis
    /\ STRATEGY_FUNCTIONS' =
           [k \in DOMAIN STRATEGY_FUNCTIONS \cup {key} |->
               IF k = key THEN ToolOf[key] ELSE STRATEGY_FUNCTIONS[k]]
    /\ UNCHANGED <<data, frame, metrics, analysis, dual_ma, tool_run,
                   requests, returned, wire, session, event_loop, threads, statement>>

add_bollinger_zscore_performance_tool == Register("bollinger_zscore")

add_bollinger_fibonacci_performance_tool == Register("bollinger_fibonacci")

add_macd_donchian_performance_tool == Register("macd_donchian")

add_connors_zscore_performance_tool == Register("connors_zscore")

add_dual_ma_performance_tool == Register("dual_ma")

add_all_performance_tools ==
    /\ analysis = NoAnalysis
    /\ STRATEGY_FUNCTIONS' =
           [k \in DOMAIN STRATEGY_FUNCTIONS \cup DOMAIN ToolOf |-> ToolOf[k]]
    /\ UNCHANGED <<data, frame, metrics, analysis, dual_ma, tool_run,
                   requests, returned, wire, session, event_loop, threads, statement>>

\* A strategies list that also runs the Bollinger Z-Score tool.
STRATEGIES_WITH_ZSCORE ==
    <<[key |-> "bollinger_zscore", title |-> "Bollinger Z-Score Strategy"],
      [key |-> "bollinger_fibonacci",
       title |-> "Bollinger Bands & Fibonacci Retracement Strategy"],
      [key |-> "macd_donchian", title |-> "MACD-Donchian Combined Strategy"],
      [key |-> "connors_zscore", title |-> "Connors RSI & Z-Score Combined Analysis"],
      [key |-> "dual_ma", title |-> "Dual Moving Average Crossover Strategy"]>>

\* The strategies list of generate_comprehensive_analysis_report.
STRATEGIES ==
    <<[key |-> "bollinger_fibonacci",
       title |-> "Bollinger Bands & Fibonacci Retracement Strategy"],
      [key |-> "macd_donchian", title |-> "MACD-Donchian Combined Strategy"],
      [key |-> "connors_zscore", title |-> "Connors RSI & Z-Score Combined Analysis"],
      [key |-> "dual_ma", title |-> "Dual Moving Average Crossover Strategy"]>>

Verdicts == {"OUTPERFORMS Buy & Hold", "UNDERPERFORMS Buy & Hold"}

\* The symbols a caller passes: a ticker with price data, and a text that no
\* exchange lists (the tools find no data for it) and that reads like a line
\* of a report.  The client wrapper only strips and upper-cases a symbol.
Symbols == {"AAPL", "CURRENT SIGNAL: HOLD"}

HasData(symbol) == symbol = "AAPL"

\* The labelled lines a symbol's own text holds ("Current Signal:" is
\* matched ignoring case).
SymbolFragments(symbol) ==
    IF symbol = "CURRENT SIGNAL: HOLD"
    THEN <<[label |-> "Current Signal", value |-> "HOLD"]>>
    ELSE <<>>

\* str.upper() on the texts a report holds.
Upper(text) ==
    CASE text = "OUTPERFORMS Buy & Hold" -> "OUTPERFORMS BUY & HOLD"
      [] text = "UNDERPERFORMS Buy & Hold" -> "UNDERPERFORMS BUY & HOLD"
      [] OTHER -> text

\* A tool's report, as its labelled lines in the order of the text: the
\* header names the symbol; format_performance_report puts the excess return
\* and the verdict before the tool's CURRENT STATUS block, the Dual MA report
\* after.
ReportContent(key, symbol, signal, excess_return, verdict) ==
    <<[label |-> "Symbol", value |-> symbol]>> \o SymbolFragments(symbol) \o
    (IF key = "dual_ma"
     THEN <<[label |-> "Current Signal", value |-> signal],
            [label |-> "Excess Return", value |-> excess_return],
            [label |-> "STRATEGY VERDICT", value |-> verdict]>>
     ELSE <<[label |-> "Excess Return", value |-> excess_return],
            [label |-> "STRATEGY VERDICT", value |-> verdict],
            [label |-> "Current Signal", value |-> signal]>>)

\* What a tool returns when it has no data or caught an exception:
\* "Error: No data found for symbol {symbol}", "Error analyzing {symbol}: ..."
ErrorContent(symbol) ==
    <<[label |-> "Error", value |-> symbol]>> \o SymbolFragments(symbol)

\* The current signals a tool can report: the Dual MA tool reports BUY or
\* SELL only, the others BUY, SELL or HOLD.
CurrentSignals(key) == IF key = "dual_ma" THEN {"BUY", "SELL"} ELSE {"BUY", "SELL", "HOLD"}

\* What calling a registered tool can do: return a report (when the symbol
\* has data), return an error report, or raise.
Outcomes(key, symbol) ==
    {[kind |-> "return",
      content |-> ReportContent(key, symbol, sg,
                                IF v = "OUTPERFORMS Buy & Hold" THEN R(1) ELSE R(-1), v)] :
        sg \in (IF HasData(symbol) THEN CurrentSignals(key) ELSE {}), v \in Verdicts}
    \cup {[kind |-> "return", content |-> ErrorContent(symbol)], [kind |-> "raise"]}

\* An extraction whose group captures the label and not the word after it.
extract_value_label(text, pattern, fallback) ==
    LET hits == SelectSeq(text, LAMBDA line : line.label = pattern)
    IN  IF Len(hits) > 0 THEN Upper(hits[1].label) ELSE fallback

\* match.group(1).strip().upper() if match else fallback
extract_value(text, pattern, fallback) ==
    LET hits == SelectSeq(text, LAMBDA line : line.label = pattern)
    IN  IF Len(hits) > 0 THEN Upper(hits[1].value) ELSE fallback

\* A recommendation that follows a single vote.
RecommendationSingleVote(buy_count, sell_count) ==
    IF buy_count > sell_count /\ buy_count >= 1 THEN "BUY"
    ELSE IF sell_count > buy_count /\ sell_count >= 1 THEN "SELL"
    ELSE "HOLD"

\* if buy_count > sell_count and buy_count >= 2 ... elif ... else
Recommendation(buy_count, sell_count) ==
    IF buy_count > sell_count /\ buy_count >= 2 THEN "BUY"
    ELSE IF sell_count > buy_count /\ sell_count >= 2 THEN "SELL"
    ELSE "HOLD"

\* sum(1 for d in strategy_details if d["signal"] == value)
CountSignal(details, value) ==
    Cardinality({i \in 1..Len(details) : details[i].signal = value})

\* One pass of the "for key, title, params in strategies" loop body.
StrategyDetail(registry, outcome, entry) ==
    IF entry.key \notin DOMAIN registry
    THEN [title |-> entry.title, signal |-> "N/A", verdict |-> "UNAVAILABLE"]
    ELSE IF outcome[entry.key].kind = "raise"
    THEN [title |-> entry.title, signal |-> "ERROR", verdict |-> "ERROR"]
    ELSE [title |-> entry.title,
          signal |-> extract_value(outcome[entry.key].content, "Current Signal", "N/A"),
          verdict |-> extract_value(outcome[entry.key].content, "STRATEGY VERDICT", "N/A")]

\* report_parts: the headed parts of the returned text, in order, each with
\* what it is rendered from.  (The individual strategy sections, which embed
\* each tool's content verbatim, are kept in outcome.)
ReportParts(symbol, details, buy_count, sell_count, hold_count, recommendation) ==
    <<[label |-> "Comprehensive Technical Analysis", value |-> symbol],
      [label |-> "Strategy Highlights", value |-> details],
      [label |-> "Signal Summary", value |-> <<buy_count, sell_count, hold_count>>],
      [label |-> "Recommendation", value |-> recommendation],
      [label |-> "Signals by Strategy", value |-> details]>>

\* The whole tool: the loop over the strategies list, the tally and the
\* recommendation.  calls lists the registry functions invoked, in order;
\* outcome records what each invoked function did.  (The current-price
\* lookup at the top of the tool only decorates the report.)
generate_comprehensive_analysis_report ==
    /\ analysis = NoAnalysis
    /\ LET listed == {STRATEGIES[i].key : i \in 1..Len(STRATEGIES)} \cap DOMAIN STRATEGY_FUNCTIONS
       IN  \E symbol \in Symbols :
           \E outcome \in [listed -> UNION {Outcomes(k, symbol) : k \in listed}] :
             /\ \A k \in listed : outcome[k] \in Outcomes(k, symbol)
             /\ LET details == [i \in 1..Len(STRATEGIES) |->
                                   StrategyDetail(STRATEGY_FUNCTIONS, outcome, STRATEGIES[i])]
                    found == SelectSeq(STRATEGIES, LAMBDA e : e.key \in DOMAIN STRATEGY_FUNCTIONS)
                    buy_count == CountSignal(details, "BUY")
                    sell_count == CountSignal(details, "SELL")
                IN  analysis' =
                        [kind |-> "report",
                         symbol |-> symbol,
                         calls |-> [j \in 1..Len(found) |-> STRATEGY_FUNCTIONS[found[j].key]],
                         outcome |-> outcome,
                         strategy_details |-> details,
                         buy_count |-> buy_count,
                         sell_count |-> sell_count,
                         hold_count |-> CountSignal(details, "HOLD"),
                         recommendation |-> Recommendation(buy_count, sell_count),
                         report_parts |->
                             ReportParts(symbol, details, buy_count, sell_count,
                                         CountSignal(details, "HOLD"),
                                         Recommendation(buy_count, sell_count))]
    /\ UNCHANGED <<data, frame, metrics, STRATEGY_FUNCTIONS, dual_ma, tool_run,
                   requests, returned, wire, session, event_loop, threads, statement>>

InitConsensus ==
    /\ EvaluatorIdle
    /\ RegistryIdle
    /\ DualMAIdle
    /\ ToolsIdle
    /\ ServingIdle
    /\ ClientIdle
    /\ StatementIdle

NextConsensus ==
    \/ add_bollinger_zscore_performance_tool
    \/ add_bollinger_fibonacci_performance_tool
    \/ add_macd_donchian_performance_tool
    \/ add_connors_zscore_performance_tool
    \/ add_dual_ma_performance_tool
    \/ add_all_performance_tools
    \/ generate_comprehensive_analysis_report

SpecConsensus == InitConsensus /\ [][NextConsensus]_vars

(***************************************************************************)
(* Claims about the comprehensive analysis.                                *)
(***************************************************************************)
Analysed == analysis.kind = "report"

TalliedSignals == [i \in 1..Len(analysis.strategy_details) |-> analysis.strategy_details[i].signal]

Votes(value) == Cardinality({i \in 1..Len(TalliedSignals) : TalliedSignals[i] = value})

\* C3: the recommendation is BUY iff buy votes > sell votes and buy votes
\* >= 2, SELL iff sell votes > buy votes and sell votes >= 2, HOLD in every
\* other case; [BUY, BUY, BUY, SELL] gives BUY.
C3_ConsensusRule ==
    Analysed =>
        /\ Len(TalliedSignals) = 4
        /\ analysis.recommendation \in {"BUY", "SELL", "HOLD"}
        /\ analysis.recommendation = "BUY" <=>
               (Votes("BUY") > Votes("SELL") /\ Votes("BUY") >= 2)
        /\ analysis.recommendation = "SELL" <=>
               (Votes("SELL") > Votes("BUY") /\ Votes("SELL") >= 2)
        /\ (Votes("BUY") = Votes("SELL") => analysis.recommendation = "HOLD")
        /\ (Votes("BUY") < 2 /\ Votes("SELL") < 2 => analysis.recommendation = "HOLD")
        /\ (TalliedSignals = <<"BUY", "BUY", "BUY", "SELL">> =>
               analysis.recommendation = "BUY")

\* C3 witness: the four strategies reported BUY, BUY, BUY, SELL.
C3_Witness ==
    /\ Analysed
    /\ TalliedSignals = <<"BUY", "BUY", "BUY", "SELL">>
    /\ analysis.recommendation = "BUY"

FourKeys == <<"bollinger_fibonacci", "macd_donchian", "connors_zscore", "dual_ma">>

\* Strategy i failed: it is not registered, its tool raised, or its tool
\* returned an error report.
Failed(i) ==
    \/ FourKeys[i] \notin DOMAIN STRATEGY_FUNCTIONS
    \/ analysis.outcome[FourKeys[i]].kind = "raise"
    \/ analysis.outcome[FourKeys[i]].content = ErrorContent(analysis.symbol)

\* C4 (as claimed): each of the four strategies fails on its own: every
\* registered strategy is run whatever the others did, a strategy that did
\* not fail is reported with the signal of its report, and a failed one is
\* recorded with a value that is none of BUY, SELL, HOLD and is counted in
\* none of buy_count, sell_count, hold_count.
C4_IndependentFailure ==
    Analysed =>
        /\ Len(analysis.strategy_details) = 4
        /\ \A i \in 1..4 :
              /\ FourKeys[i] \in DOMAIN STRATEGY_FUNCTIONS =>
                     \E j \in 1..Len(analysis.calls) :
                         analysis.calls[j] = ToolOf[FourKeys[i]]
              /\ Failed(i) => TalliedSignals[i] \in {"N/A", "ERROR"}
              /\ ~Failed(i) =>
                     \E v \in Verdicts, e \in {R(1), R(-1)} :
                         analysis.outcome[FourKeys[i]].content =
                             ReportContent(FourKeys[i], analysis.symbol,
                                           TalliedSignals[i], e, v)
        /\ analysis.buy_count + analysis.sell_count + analysis.hold_count =
               Cardinality({i \in 1..4 : ~Failed(i)})

\* C9: the analysis runs and tallies the four strategies bollinger_fibonacci,
\* macd_donchian, connors_zscore, dual_ma, in that order, and never the
\* bollinger_zscore tool, whatever the registry holds.
C9_FourStrategiesOnly ==
    Analysed =>
        /\ [i \in 1..Len(analysis.strategy_details) |-> analysis.strategy_details[i].title] =
               <<"Bollinger Bands & Fibonacci Retracement Strategy",
                 "MACD-Donchian Combined Strategy",
                 "Connors RSI & Z-Score Combined Analysis",
                 "Dual Moving Average Crossover Strategy">>
        /\ analysis.calls =
               SelectSeq(<<"analyze_bollinger_fibonacci_performance",
                           "analyze_macd_donchian_performance",
                           "analyze_connors_zscore_performance",
                           "analyze_dual_ma_strategy">>,
                         LAMBDA f : \E k \in DOMAIN STRATEGY_FUNCTIONS :
                                        STRATEGY_FUNCTIONS[k] = f)
        /\ \A j \in 1..Len(analysis.calls) :
              analysis.calls[j] # "analyze_bollinger_zscore_performance"
        /\ analysis.buy_count + analysis.sell_count + analysis.hold_count <= 4

\* C9 witness: all five tools are registered, bollinger_zscore among them,
\* and the analysis called four.
C9_Witness ==
    /\ Analysed
    /\ "bollinger_zscore" \in DOMAIN STRATEGY_FUNCTIONS
    /\ Len(analysis.calls) = 4
    /\ analysis.buy_count + analysis.sell_count + analysis.hold_count = 4

\* The excess return a strategy's report shows, if it is a report.
ExcessOf(i) ==
    LET key == STRATEGIES[i].key
        hits == IF key \in DOMAIN analysis.outcome /\ analysis.outcome[key].kind = "return"
                THEN SelectSeq(analysis.outcome[key].content,
                               LAMBDA line : line.label = "Excess Return")
                ELSE <<>>
    IN  IF Len(hits) > 0 THEN hits[1].value ELSE NaN

\* The positions of the strategies list.
Listed == 1..Len(STRATEGIES)

\* C20: when the four strategies returned their reports, the output of
\* generate_comprehensive_analysis_report names a best and a worst strategy,
\* the ones with the highest and the lowest excess return.
C20_BestWorstByExcess ==
    (Analysed /\ \A i \in Listed : IsFinite(ExcessOf(i)))
        => \E best \in Listed, worst \in Listed :
              /\ \A i \in Listed : LessEq(ExcessOf(i), ExcessOf(best))
              /\ \A i \in Listed : GreaterEq(ExcessOf(i), ExcessOf(worst))
              /\ \E p \in 1..Len(analysis.report_parts) :
                    /\ analysis.report_parts[p].label = "Best Strategy"
                    /\ analysis.report_parts[p].value = STRATEGIES[best].title
              /\ \E p \in 1..Len(analysis.report_parts) :
                    /\ analysis.report_parts[p].label = "Worst Strategy"
                    /\ analysis.report_parts[p].value = STRATEGIES[worst].title

(***************************************************************************)
(* The Dual Moving Average tool.                                           *)
(***************************************************************************)
\* Series.rolling(window).mean(): NaN until the window is full.
SMA(xs, window) ==
    [i \in 1..Len(xs) |->
        IF i < window THEN NaN
        ELSE Div(SumSeq(SubSeq(xs, i - window + 1, i)), R(window))]

\* Series.ewm(span, adjust=False).mean(): y[0] = x[0],
\* y[t] = (1 - a) * y[t-1] + a * x[t] with a = 2 / (span + 1).
RECURSIVE EMA(_, _)
EMA(xs, span) ==
    IF Len(xs) <= 1 THEN xs
    ELSE LET init == EMA(SubSeq(xs, 1, Len(xs) - 1), span)
             a == Make(2, span + 1)
         IN  Append(init, Add(Mul(Sub(R(1), a), init[Len(init)]), Mul(a, xs[Len(xs)])))

\* An average that follows the close itself, whatever the period.
MovingAverageNoSmoothing(xs, period, ma_type) == xs

\* ma_type.upper() == "EMA" selects ewm, anything else rolling.
MovingAverage(xs, period, ma_type) ==
    IF ma_type = "EMA" THEN EMA(xs, period) ELSE SMA(xs, period)

\* A level-triggered BUY: set on every bar with the short average above.
GoldenCrossLevel(short_ma, long_ma) ==
    [i \in 1..Len(short_ma) |-> Greater(short_ma[i], long_ma[i])]

\* (short_ma > long_ma) & (short_ma.shift(1) <= long_ma.shift(1))
GoldenCross(short_ma, long_ma) ==
    [i \in 1..Len(short_ma) |->
        /\ Greater(short_ma[i], long_ma[i])
        /\ LessEq(Shift1(short_ma)[i], Shift1(long_ma)[i])]

\* (short_ma < long_ma) & (short_ma.shift(1) >= long_ma.shift(1))
DeathCross(short_ma, long_ma) ==
    [i \in 1..Len(short_ma) |->
        /\ Less(short_ma[i], long_ma[i])
        /\ GreaterEq(Shift1(short_ma)[i], Shift1(long_ma)[i])]

\* data['Signal'] = None; = 'BUY' where golden_cross; = 'SELL' where death_cross
CrossoverSignal(golden_cross, death_cross) ==
    [i \in 1..Len(golden_cross) |->
        IF death_cross[i] THEN "SELL"
        ELSE IF golden_cross[i] THEN "BUY"
        ELSE "NONE"]

\* The averages and the crossover events of a series of closes: the columns
\* Short_MA, Long_MA and Signal, and the two event series.
DualMACrossover(closes, short_period, long_period, ma_type) ==
    LET series == [i \in 1..Len(closes) |-> R(closes[i])]
        short_ma == MovingAverage(series, short_period, ma_type)
        long_ma == MovingAverage(series, long_period, ma_type)
        golden_cross == GoldenCross(short_ma, long_ma)
        death_cross == DeathCross(short_ma, long_ma)
    IN  [Close |-> closes,
         Short_MA |-> short_ma,
         Long_MA |-> long_ma,
         golden_cross |-> golden_cross,
         death_cross |-> death_cross,
         Signal |-> CrossoverSignal(golden_cross, death_cross)]

\* A current signal that is neutral unless one average is strictly ahead.
CurrentSignalNeutral(current_short, current_long) ==
    IF Greater(current_short, current_long) THEN "BUY"
    ELSE IF Less(current_short, current_long) THEN "SELL"
    ELSE "HOLD"

\* current_position is LONG if current_short > current_long else SHORT;
\* current_signal is BUY when LONG, SELL otherwise.
CurrentSignal(current_short, current_long) ==
    LET current_position == IF Greater(current_short, current_long) THEN "LONG" ELSE "SHORT"
    IN  IF current_position = "LONG" THEN "BUY" ELSE "SELL"

\* The tool on the downloaded closes: an error report without data, else
\* the averages, the crossover events, the backtest and the current signal.
DualMAResult(symbol, closes, short_period, long_period, ma_type) ==
    IF Len(closes) = 0 THEN [kind |-> "error", content |-> ErrorContent(symbol)]
    ELSE
    LET n == Len(closes)
        x == DualMACrossover(closes, short_period, long_period, ma_type)
        short_ma == x.Short_MA
        long_ma == x.Long_MA
        golden_cross == x.golden_cross
        death_cross == x.death_cross
        signal == x.Signal
        m == calculate_strategy_performance_metrics([Close |-> closes, Signal |-> signal])
        current_signal == CurrentSignal(short_ma[n], long_ma[n])
        current_position == IF current_signal = "BUY" THEN "LONG" ELSE "SHORT"
        verdict == IF Greater(m.excess_return, R(0))
                   THEN "OUTPERFORMS Buy & Hold" ELSE "UNDERPERFORMS Buy & Hold"
    IN  [kind |-> "report",
         Close |-> closes,
         Short_MA |-> short_ma,
         Long_MA |-> long_ma,
         golden_cross |-> golden_cross,
         death_cross |-> death_cross,
         Signal |-> signal,
         metrics |-> m,
         golden_crosses |-> Cardinality({i \in 1..n : golden_cross[i]}),
         death_crosses |-> Cardinality({i \in 1..n : death_cross[i]}),
         current_position |-> current_position,
         current_signal |-> current_signal,
         trend_strength |-> Mul(Div(LET gap == Sub(short_ma[n], long_ma[n])
                                    IN  <<Abs(gap[1]), gap[2]>>,
                                    long_ma[n]), R(100)),
         content |-> ReportContent("dual_ma", symbol, current_signal,
                                   m.excess_return, verdict)]

analyze_dual_ma_strategy ==
    /\ dual_ma = NoDualMA
    /\ \E symbol \in Symbols, short_period \in 1..MaxPeriod, long_period \in 1..MaxPeriod,
          ma_type \in {"EMA", "SMA"} :
          \E closes \in UNION {[1..n -> Prices] :
                                  n \in (IF HasData(symbol) THEN 0..MaxMABars ELSE {0})} :
             dual_ma' = [args |-> [symbol |-> symbol, short_period |-> short_period,
                                   long_period |-> long_period, ma_type |-> ma_type]]
                        @@ DualMAResult(symbol, closes, short_period, long_period, ma_type)
    /\ UNCHANGED <<data, frame, metrics, STRATEGY_FUNCTIONS, analysis, tool_run,
                   requests, returned, wire, session, event_loop, threads, statement>>

\* The series and the periods of the documented crossover scenario.
ScenarioB ==
    [closes |-> <<10, 9, 8, 7, 6, 7, 8, 9, 10, 11, 12>>,
     short_period |-> 2,
     long_period |-> 5]

\* The arguments the crossover step is run on: every small series with
\* every pair of small periods, and the documented scenario.
CrossoverInputs ==
    {ScenarioB}
    \cup {[closes |-> c, short_period |-> s, long_period |-> l] :
             c \in UNION {[1..n -> Prices] : n \in 1..MaxMABars},
             s \in 1..MaxPeriod, l \in 1..MaxPeriod}

\* The first half of analyze_dual_ma_strategy on a non-empty series: the two
\* averages and the crossover events written to the table, up to the call of
\* the evaluator.
dual_ma_crossover ==
    /\ dual_ma = NoDualMA
    /\ \E input \in CrossoverInputs, ma_type \in {"EMA", "SMA"} :
          dual_ma' = [kind |-> "crossover",
                      args |-> [short_period |-> input.short_period,
                                long_period |-> input.long_period,
                                ma_type |-> ma_type]]
                     @@ DualMACrossover(input.closes, input.short_period,
                                        input.long_period, ma_type)
    /\ UNCHANGED <<data, frame, metrics, STRATEGY_FUNCTIONS, analysis, tool_run,
                   requests, returned, wire, session, event_loop, threads, statement>>

InitDualMA ==
    /\ EvaluatorIdle
    /\ RegistryIdle
    /\ DualMAIdle
    /\ ToolsIdle
    /\ ServingIdle
    /\ ClientIdle
    /\ StatementIdle

NextDualMA == analyze_dual_ma_strategy

SpecDualMA == InitDualMA /\ [][NextDualMA]_vars

NextCrossover == dual_ma_crossover

SpecCrossover == InitDualMA /\ [][NextCrossover]_vars

(***************************************************************************)
(* Claims about the Dual Moving Average tool.                              *)
(***************************************************************************)
DualMAReported == dual_ma.kind = "report"

MABars == 1..Len(dual_ma.Close)

\* a > b and a <= b on two defined numbers, by cross-multiplication.
Above(a, b) == a[2] > 0 /\ b[2] > 0 /\ a[1] * b[2] > b[1] * a[2]

NotAbove(a, b) == a[2] > 0 /\ b[2] > 0 /\ a[1] * b[2] <= b[1] * a[2]

\* C10: a BUY is placed on bar t exactly when short_ma[t] > long_ma[t] and
\* short_ma[t-1] <= long_ma[t-1], a SELL exactly in the mirrored case; so BUY
\* never fires on two consecutive bars, fires once while the short average
\* stays above the long one, and no bar carries both events.
C10_EdgeTriggeredCross ==
    DualMAReported =>
        /\ \A t \in MABars :
              /\ dual_ma.Signal[t] = "BUY" <=>
                     /\ t > 1
                     /\ Above(dual_ma.Short_MA[t], dual_ma.Long_MA[t])
                     /\ NotAbove(dual_ma.Short_MA[t - 1], dual_ma.Long_MA[t - 1])
              /\ dual_ma.Signal[t] = "SELL" <=>
                     /\ t > 1
                     /\ Above(dual_ma.Long_MA[t], dual_ma.Short_MA[t])
                     /\ NotAbove(dual_ma.Long_MA[t - 1], dual_ma.Short_MA[t - 1])
              /\ ~(dual_ma.golden_cross[t] /\ dual_ma.death_cross[t])
              /\ (t > 1 /\ dual_ma.Signal[t] = "BUY") => dual_ma.Signal[t - 1] # "BUY"
        /\ \A t \in MABars : \A u \in MABars :
              (/\ t < u
               /\ dual_ma.Signal[t] = "BUY"
               /\ \A i \in t..u : Above(dual_ma.Short_MA[i], dual_ma.Long_MA[i]))
                  => dual_ma.Signal[u] # "BUY"

\* C10 witness: a golden cross, after which the short average stays above
\* the long one for two more bars without another BUY.
C10_Witness ==
    /\ DualMAReported
    /\ \E t \in MABars :
          /\ t + 2 \in MABars
          /\ dual_ma.Signal[t] = "BUY"
          /\ \A i \in {t + 1, t + 2} :
                /\ Above(dual_ma.Short_MA[i], dual_ma.Long_MA[i])
                /\ dual_ma.Signal[i] = "NONE"

\* C15: the current signal the Dual MA report carries, which is the one the
\* aggregator's pattern extracts and tallies, is BUY when short_ma > long_ma
\* on the last bar and SELL otherwise, whatever the crossover events of the
\* backtest are; it is never HOLD.
C15_CurrentSignalFromPosition ==
    DualMAReported =>
        LET n == Len(dual_ma.Close)
        IN  /\ dual_ma.current_signal =
                   IF Above(dual_ma.Short_MA[n], dual_ma.Long_MA[n]) THEN "BUY" ELSE "SELL"
            /\ dual_ma.current_signal # "HOLD"
            /\ dual_ma.current_position =
                   IF Above(dual_ma.Short_MA[n], dual_ma.Long_MA[n]) THEN "LONG" ELSE "SHORT"
            /\ extract_value(dual_ma.content, "Current Signal", "N/A")
                   = dual_ma.current_signal

\* C15 witness: the short average ends above the long one, so the current
\* signal is BUY, while the backtest has no event on any of its bars.
C15_Witness ==
    /\ DualMAReported
    /\ Len(dual_ma.Close) = MaxMABars
    /\ dual_ma.current_signal = "BUY"
    /\ dual_ma.golden_crosses = 0
    /\ \A t \in MABars : dual_ma.Signal[t] = "NONE"

\* C17: with short_period = 2 and long_period = 5 the series
\* 10,9,8,7,6,7,8,9,10,11,12 has exactly one golden cross, a BUY row, and it
\* lies after the low of 6, on a bar whose close rose.
C17_ScenarioB ==
    (/\ dual_ma.kind = "crossover"
     /\ dual_ma.Close = ScenarioB.closes
     /\ dual_ma.args.short_period = ScenarioB.short_period
     /\ dual_ma.args.long_period = ScenarioB.long_period)
        => LET low == CHOOSE i \in MABars :
                          \A j \in MABars : dual_ma.Close[i] <= dual_ma.Close[j]
           IN  /\ dual_ma.Close[low] = 6
               /\ Cardinality({t \in MABars : dual_ma.golden_cross[t]}) = 1
               /\ Cardinality({t \in MABars : dual_ma.Signal[t] = "BUY"}) = 1
               /\ \A t \in MABars :
                     dual_ma.golden_cross[t] =>
                         /\ t > low
                         /\ dual_ma.Close[t] > dual_ma.Close[t - 1]
                         /\ dual_ma.Signal[t] = "BUY"

\* C17 witness: the scenario run with exponential averages, its golden cross
\* on the bar that closes at 8 on the way up.
C17_Witness ==
    /\ dual_ma.kind = "crossover"
    /\ dual_ma.Close = ScenarioB.closes
    /\ dual_ma.args = [short_period |-> 2, long_period |-> 5, ma_type |-> "EMA"]
    /\ dual_ma.golden_cross[7]
    /\ dual_ma.Signal[7] = "BUY"

(***************************************************************************)
(* The three score-based strategy tools.                                   *)
(*                                                                         *)
(* A score is a sum of a term that holds a standard deviation and a term   *)
(* that does not.  It is carried as the pair [root2, rat]: root2 is the    *)
(* signed square of the first term, rat the second term, so the score is   *)
(* sgn(root2) * sqrt(|root2|) + rat, and comparing it with a threshold     *)
(* stays in the rationals.                                                 *)
(***************************************************************************)
\* Series.rolling(window).std() squared: NaN until the window is full, and
\* for a window of one row.
RollingVar(xs, window) ==
    [i \in 1..Len(xs) |->
        IF i < window THEN NaN ELSE Variance(SubSeq(xs, i - window + 1, i))]

\* The largest element of a non-empty sequence of finite numbers.
SeqMax(xs) ==
    CHOOSE m \in {xs[i] : i \in 1..Len(xs)} : \A i \in 1..Len(xs) : ~Less(m, xs[i])

\* Series.rolling(window).max() and .min()
RollingMax(xs, window) ==
    [i \in 1..Len(xs) |->
        IF i < window THEN NaN ELSE SeqMax(SubSeq(xs, i - window + 1, i))]

RollingMin(xs, window) ==
    [i \in 1..Len(xs) |->
        IF i < window THEN NaN ELSE SeriesMin(SubSeq(xs, i - window + 1, i))]

\* Series.diff()
Diff(xs) == [i \in 1..Len(xs) |-> IF i = 1 THEN NaN ELSE Sub(xs[i], xs[i - 1])]

\* Series.clip(lo, hi): NaN stays NaN.
Clip(x, lo, hi) ==
    IF IsNaN(x) THEN NaN
    ELSE IF Less(x, lo) THEN lo
    ELSE IF Greater(x, hi) THEN hi
    ELSE x

ScoreIsNaN(s) ==
    \/ IsNaN(s.root2)
    \/ IsNaN(s.rat)
    \/ (IsInf(s.root2) /\ IsInf(s.rat) /\ s.root2 # s.rat)

\* score > t and score < t, false for an undefined score.
ScoreGreater(s, t) == ~ScoreIsNaN(s) /\ Greater(s.root2, SignedSquare(Sub(t, s.rat)))

ScoreLess(s, t) == ~ScoreIsNaN(s) /\ Less(s.root2, SignedSquare(Sub(t, s.rat)))

ZeroScore == [root2 |-> R(0), rat |-> R(0)]

\* Signals with the thresholds included: BUY at 25 and above, SELL at -25
\* and below.
ScoreSignalInclusive(score) ==
    [i \in 1..Len(score) |->
        IF ~ScoreIsNaN(score[i]) /\ ~ScoreGreater(score[i], R(-25)) THEN "SELL"
        ELSE IF ~ScoreIsNaN(score[i]) /\ ~ScoreLess(score[i], R(25)) THEN "BUY"
        ELSE "NONE"]

\* data['Signal'] = None; = 'BUY' where score > 25; = 'SELL' where score < -25
ScoreSignal(score) ==
    [i \in 1..Len(score) |->
        IF ScoreLess(score[i], R(-25)) THEN "SELL"
        ELSE IF ScoreGreater(score[i], R(25)) THEN "BUY"
        ELSE "NONE"]

\* score.iloc[-1] if not score.isna().iloc[-1] else 0
CurrentScore(score) ==
    IF ScoreIsNaN(score[Len(score)]) THEN ZeroScore ELSE score[Len(score)]

\* "BUY" if current > 25 else "SELL" if current < -25 else "HOLD"
CurrentScoreSignal(current) ==
    IF ScoreGreater(current, R(25)) THEN "BUY"
    ELSE IF ScoreLess(current, R(-25)) THEN "SELL"
    ELSE "HOLD"

\* The STRATEGY VERDICT line of format_performance_report.
PerformanceVerdict(m) ==
    IF Greater(m.excess_return, R(0)) /\ Greater(m.strategy_sharpe, m.buyhold_sharpe)
    THEN "OUTPERFORMS Buy & Hold" ELSE "UNDERPERFORMS Buy & Hold"

\* What the three tools share after their score column is computed: the
\* signal column, the evaluator call, the report and the current values.
ScoredReport(key, symbol, closes, score) ==
    LET signal == ScoreSignal(score)
        m == calculate_strategy_performance_metrics([Close |-> closes, Signal |-> signal])
        current == CurrentScore(score)
        current_signal == CurrentScoreSignal(current)
    IN  [kind |-> "report",
         tool |-> key,
         Close |-> closes,
         Score |-> score,
         Signal |-> signal,
         metrics |-> m,
         current_score |-> current,
         current_signal |-> current_signal,
         content |-> ReportContent(key, symbol, current_signal, m.excess_return,
                                   PerformanceVerdict(m))]

\* if data.empty: return f"Error: No data found for symbol {symbol}"
NoDataReport(key, symbol) ==
    [kind |-> "error", tool |-> key, content |-> ErrorContent(symbol)]

ToolPrices == 1..MaxLevel

\* The closes a download gives: none for a symbol without data.
Downloads(symbol, prices) ==
    UNION {[1..n -> prices] : n \in (IF HasData(symbol) THEN 0..MaxToolBars ELSE {0})}

(***************************************************************************)
(* analyze_bollinger_fibonacci_performance.  percent_b is carried as       *)
(* percent_b_offset2, the signed square of percent_b - 0.5, which is       *)
(* (close - rolling_mean) / (2 * num_std * rolling_std).                   *)
(***************************************************************************)
\* (closes - lower_band) / (upper_band - lower_band), less 0.5, signed square
PercentBOffset2(series, window, num_std) ==
    LET rolling_mean == SMA(series, window)
        rolling_var == RollingVar(series, window)
    IN  [i \in 1..Len(series) |->
            Div(SignedSquare(Sub(series[i], rolling_mean[i])),
                Mul(R(4 * num_std * num_std), rolling_var[i]))]

\* bb_score = (0.5 - percent_b) * 100
BBScore(offset2) ==
    [i \in 1..Len(offset2) |->
        [root2 |-> Neg(Mul(R(10000), offset2[i])), rat |-> R(0)]]

BollingerFibonacciResult(symbol, closes, window, num_std) ==
    IF Len(closes) = 0 THEN NoDataReport("bollinger_fibonacci", symbol)
    ELSE
    LET series == [i \in 1..Len(closes) |-> R(closes[i])]
        offset2 == PercentBOffset2(series, window, num_std)
        bb_score == BBScore(offset2)
        last == offset2[Len(closes)]
    IN  [percent_b_offset2 |-> offset2,
         current_percent_b_offset2 |-> IF IsNaN(last) THEN R(0) ELSE last]
        @@ ScoredReport("bollinger_fibonacci", symbol, closes, bb_score)

analyze_bollinger_fibonacci_performance ==
    /\ tool_run = NoToolRun
    /\ \E symbol \in Symbols, window \in 1..MaxPeriod, num_std \in {1, 2} :
          \E closes \in Downloads(symbol, ToolPrices) :
             tool_run' = [args |-> [symbol |-> symbol, window |-> window,
                                    num_std |-> num_std]]
                         @@ BollingerFibonacciResult(symbol, closes, window, num_std)
    /\ UNCHANGED <<data, frame, metrics, STRATEGY_FUNCTIONS, analysis, dual_ma,
                   requests, returned, wire, session, event_loop, threads, statement>>

(***************************************************************************)
(* analyze_macd_donchian_performance.  macd_score is carried as its signed *)
(* square; the table's High and Low are Close + spread and Close - spread. *)
(***************************************************************************)
\* macd_score = ((macd_line - signal_line) / typical_range).clip(-1, 1) * 50
\* with typical_range = macd_line.std() * 3, or 0.001 when that is 0.
MACDScore2(series, fast_period, slow_period, signal_period) ==
    LET ema_fast == EMA(series, fast_period)
        ema_slow == EMA(series, slow_period)
        macd_line == [i \in 1..Len(series) |-> Sub(ema_fast[i], ema_slow[i])]
        signal_line == EMA(macd_line, signal_period)
        macd_var == Variance(macd_line)
        line_position2 ==
            [i \in 1..Len(series) |->
                LET gap == Sub(macd_line[i], signal_line[i])
                IN  IF macd_var = R(0)
                    THEN SignedSquare(Mul(gap, R(1000)))
                    ELSE Div(SignedSquare(gap), Mul(R(9), macd_var))]
    IN  [i \in 1..Len(series) |-> Mul(R(2500), Clip(line_position2[i], R(-1), R(1)))]

\* The position in a channel that is taken over the bars available
\* (min_periods = 1) while fewer than window bars exist.
PositionPctNoWarmUp(close, high, low, window) ==
    [i \in 1..Len(close) |->
        LET first == IF i < window THEN 1 ELSE i - window + 1
            upper == SeqMax(SubSeq(high, first, i))
            lower == SeriesMin(SubSeq(low, first, i))
        IN  Div(Sub(close[i], lower), Sub(upper, lower))]

\* (Close - lower_channel) / (upper_channel - lower_channel)
PositionPct(close, high, low, window) ==
    LET upper_channel == RollingMax(high, window)
        lower_channel == RollingMin(low, window)
    IN  [i \in 1..Len(close) |->
            Div(Sub(close[i], lower_channel[i]), Sub(upper_channel[i], lower_channel[i]))]

\* donchian_score = (position_pct - 0.5) * 100
DonchianScore(position_pct) ==
    [i \in 1..Len(position_pct) |-> Mul(Sub(position_pct[i], Make(1, 2)), R(100))]

\* combined_score = (macd_score * 0.6) + (donchian_score * 0.4)
MACDDonchianScore(macd_score2, donchian_score) ==
    [i \in 1..Len(macd_score2) |->
        [root2 |-> Mul(Make(9, 25), macd_score2[i]),
         rat |-> Mul(Make(2, 5), donchian_score[i])]]

MACDDonchianResult(symbol, closes, spreads, periods, window) ==
    IF Len(closes) = 0 THEN NoDataReport("macd_donchian", symbol)
    ELSE
    LET n == Len(closes)
        close == [i \in 1..n |-> R(closes[i])]
        high == [i \in 1..n |-> R(closes[i] + spreads[i])]
        low == [i \in 1..n |-> R(closes[i] - spreads[i])]
        macd_score2 == MACDScore2(close, periods.fast_period, periods.slow_period,
                                  periods.signal_period)
        position_pct == PositionPct(close, high, low, window)
        donchian_score == DonchianScore(position_pct)
    IN  [High |-> high,
         Low |-> low,
         upper_channel |-> RollingMax(high, window),
         lower_channel |-> RollingMin(low, window),
         macd_score2 |-> macd_score2,
         position_pct |-> position_pct,
         donchian_score |-> donchian_score,
         current_macd_score2 |-> IF IsNaN(macd_score2[n]) THEN R(0) ELSE macd_score2[n],
         current_donchian_score |->
             IF IsNaN(donchian_score[n]) THEN R(0) ELSE donchian_score[n]]
        @@ ScoredReport("macd_donchian", symbol, closes,
                        MACDDonchianScore(macd_score2, donchian_score))

\* The MACD periods the tool is run with: histogram always 0 (the signal
\* line follows the MACD line), and a smoothed signal line.
MACDPeriods ==
    {[fast_period |-> 1, slow_period |-> 3, signal_period |-> 1],
     [fast_period |-> 1, slow_period |-> 3, signal_period |-> 3]}

\* The Donchian windows the tool is run with: every row its own channel,
\* and a channel over two rows.
DonchianWindows == {1, 2}

analyze_macd_donchian_performance ==
    /\ tool_run = NoToolRun
    /\ \E symbol \in Symbols, window \in DonchianWindows, periods \in MACDPeriods :
          \E closes \in Downloads(symbol, Prices) :
          \E spreads \in [1..Len(closes) -> {0, 1}] :
             tool_run' = [args |-> [symbol |-> symbol, window |-> window] @@ periods]
                         @@ MACDDonchianResult(symbol, closes, spreads, periods, window)
    /\ UNCHANGED <<data, frame, metrics, STRATEGY_FUNCTIONS, analysis, dual_ma,
                   requests, returned, wire, session, event_loop, threads, statement>>

(***************************************************************************)
(* analyze_connors_zscore_performance.  zscore is carried as its signed    *)
(* square; the weights are the defaults 0.7 and 0.3.                       *)
(***************************************************************************)
\* delta.where(delta > 0, 0) and -delta.where(delta < 0, 0): the undefined
\* first delta gives 0 in both.
Gains(delta) ==
    [i \in 1..Len(delta) |-> IF Greater(delta[i], R(0)) THEN delta[i] ELSE R(0)]

Losses(delta) ==
    [i \in 1..Len(delta) |-> IF Less(delta[i], R(0)) THEN Neg(delta[i]) ELSE R(0)]

\* rs = gain / loss; price_rsi = 100 - (100 / (1 + rs))
PriceRSI(gain, loss) ==
    [i \in 1..Len(gain) |->
        Sub(R(100), Div(R(100), Add(R(1), Div(gain[i], loss[i]))))]

\* zscore = (close - rolling_mean) / rolling_std, signed square
ZScore2(series, zscore_window) ==
    LET rolling_mean == SMA(series, zscore_window)
        rolling_var == RollingVar(series, zscore_window)
    IN  [i \in 1..Len(series) |->
            Div(SignedSquare(Sub(series[i], rolling_mean[i])), rolling_var[i])]

\* combined_score = connors_score * 0.7 + zscore_score * 0.3 with
\* connors_score = (connors_rsi - 50) * 2, zscore_score = zscore.clip(-3, 3) * (100/3)
ConnorsZScoreScore(connors_rsi, zscore2) ==
    [i \in 1..Len(connors_rsi) |->
        [root2 |-> Mul(Make(9, 100), Mul(Make(10000, 9), Clip(zscore2[i], R(-9), R(9)))),
         rat |-> Mul(Make(7, 10), Mul(Sub(connors_rsi[i], R(50)), R(2)))]]

ConnorsZScoreResult(symbol, closes, rsi_period, zscore_window) ==
    IF Len(closes) = 0 THEN NoDataReport("connors_zscore", symbol)
    ELSE
    LET n == Len(closes)
        close == [i \in 1..n |-> R(closes[i])]
        delta == Diff(close)
        gain == SMA(Gains(delta), rsi_period)
        loss == SMA(Losses(delta), rsi_period)
        connors_rsi == PriceRSI(gain, loss)
        zscore2 == ZScore2(close, zscore_window)
    IN  [gain |-> gain,
         loss |-> loss,
         connors_rsi |-> connors_rsi,
         zscore2 |-> zscore2,
         current_connors |-> IF IsNaN(connors_rsi[n]) THEN R(50) ELSE connors_rsi[n],
         current_zscore2 |-> IF IsNaN(zscore2[n]) THEN R(0) ELSE zscore2[n]]
        @@ ScoredReport("connors_zscore", symbol, closes,
                        ConnorsZScoreScore(connors_rsi, zscore2))

analyze_connors_zscore_performance ==
    /\ tool_run = NoToolRun
    /\ \E symbol \in Symbols, rsi_period \in 1..MaxPeriod, zscore_window \in 1..MaxPeriod :
          \E closes \in Downloads(symbol, Prices) :
             tool_run' = [args |-> [symbol |-> symbol, rsi_period |-> rsi_period,
                                    zscore_window |-> zscore_window]]
                         @@ ConnorsZScoreResult(symbol, closes, rsi_period, zscore_window)
    /\ UNCHANGED <<data, frame, metrics, STRATEGY_FUNCTIONS, analysis, dual_ma,
                   requests, returned, wire, session, event_loop, threads, statement>>

InitScoreTools ==
    /\ EvaluatorIdle
    /\ RegistryIdle
    /\ DualMAIdle
    /\ ToolsIdle
    /\ ServingIdle
    /\ ClientIdle
    /\ StatementIdle

NextScoreTools ==
    \/ analyze_bollinger_fibonacci_performance
    \/ analyze_macd_donchian_performance
    \/ analyze_connors_zscore_performance

SpecScoreTools == InitScoreTools /\ [][NextScoreTools]_vars

(***************************************************************************)
(* Claims about the score-based tools.                                     *)
(***************************************************************************)
ToolReported == tool_run.kind = "report"

ToolBars == 1..Len(tool_run.Close)

FlatSeries == \A i \in ToolBars : tool_run.Close[i] = tool_run.Close[1]

\* A score that is a number, and its comparison with a threshold t, from
\* the two terms of the score: with gap = t - rat, the score is above t
\* when the root term is above gap.
ScoreDefined(s) == IsFinite(s.root2) /\ IsFinite(s.rat)

ScoreAbove(s, t) ==
    /\ ScoreDefined(s)
    /\ LET gap == Sub(R(t), s.rat)
           gap2 == Mul(gap, gap)
       IN  IF gap[1] < 0
           THEN s.root2[1] >= 0 \/ Less(Neg(s.root2), gap2)
           ELSE Greater(s.root2, gap2)

ScoreBelow(s, t) ==
    /\ ScoreDefined(s)
    /\ LET gap == Sub(R(t), s.rat)
           gap2 == Mul(gap, gap)
       IN  IF gap[1] > 0
           THEN s.root2[1] <= 0 \/ Less(s.root2, gap2)
           ELSE Greater(Neg(s.root2), gap2)

\* C11: Bollinger-Fibonacci on a perfectly flat series has, on every row
\* whose bands exist, percent_b = 0.5 and score = 0, and the signal is HOLD
\* (no BUY or SELL) on every row.
C11_FlatSeriesNeutral ==
    (/\ ToolReported
     /\ tool_run.tool = "bollinger_fibonacci"
     /\ tool_run.args.window >= 2
     /\ Len(tool_run.Close) >= tool_run.args.window
     /\ FlatSeries)
        => /\ \A i \in ToolBars : tool_run.Signal[i] = "NONE"
           /\ tool_run.current_signal = "HOLD"
           /\ \A i \in ToolBars :
                 i >= tool_run.args.window =>
                     /\ tool_run.percent_b_offset2[i] = R(0)
                     /\ tool_run.Score[i] = ZeroScore

\* C12: on a row of the MACD-Donchian table whose Donchian channel has zero
\* width, position_pct has a neutral value, so donchian_score and
\* combined_score are defined on that row; the tool reports.
C12_ZeroWidthChannelGuarded ==
    (ToolReported /\ tool_run.tool = "macd_donchian" /\ Len(tool_run.Close) > 1)
        => \A i \in ToolBars :
              (/\ i >= tool_run.args.window
               /\ tool_run.upper_channel[i] = tool_run.lower_channel[i])
                  => /\ tool_run.position_pct[i] = Make(1, 2)
                     /\ tool_run.donchian_score[i] = R(0)
                     /\ ScoreDefined(tool_run.Score[i])

\* C13: in the Connors table RSI is 100 on every row past the warm-up whose
\* rolling average loss is 0, whatever the rolling average gain is.
C13_RSIHundredWhenNoLoss ==
    (ToolReported /\ tool_run.tool = "connors_zscore")
        => \A i \in ToolBars :
              (i > tool_run.args.rsi_period /\ tool_run.loss[i] = R(0))
                  => tool_run.connors_rsi[i] = R(100)

\* The part of C14 about the three score-based tools: a series shorter than
\* the tool's rolling window is reported with no BUY or SELL row and the
\* current signal HOLD.
ShortSeriesNeutralScoreTools ==
    (/\ ToolReported
     /\ \/ tool_run.tool \in {"bollinger_fibonacci", "macd_donchian"}
           /\ Len(tool_run.Close) < tool_run.args.window
        \/ tool_run.tool = "connors_zscore"
           /\ \/ Len(tool_run.Close) < tool_run.args.zscore_window
              \/ Len(tool_run.Close) < tool_run.args.rsi_period)
        => /\ \A i \in ToolBars : tool_run.Signal[i] = "NONE"
           /\ tool_run.current_signal = "HOLD"

\* The part of C14 about the Dual MA tool: a series shorter than the long
\* period is reported with no BUY or SELL row and the current signal HOLD.
ShortSeriesNeutralDualMA ==
    (DualMAReported /\ Len(dual_ma.Close) < dual_ma.args.long_period)
        => /\ \A t \in MABars : dual_ma.Signal[t] = "NONE"
           /\ dual_ma.current_signal = "HOLD"

\* C14: for each of the four generators a series shorter than the required
\* window raises nothing, yields no BUY or SELL row in the backtest and
\* reports the neutral current signal HOLD.
C14_InsufficientDataNeutral ==
    /\ ShortSeriesNeutralScoreTools
    /\ ShortSeriesNeutralDualMA

\* C18: in each of the three score-based tools a row is BUY iff its score is
\* above 25 and SELL iff its score is below -25; every other row, a score of
\* exactly 25 or -25 and an undefined score included, has no signal, and no
\* row is both.
C18_ScoreThresholds ==
    ToolReported =>
        \A i \in ToolBars :
           /\ tool_run.Signal[i] \in {"BUY", "SELL", "NONE"}
           /\ tool_run.Signal[i] = "BUY" <=> ScoreAbove(tool_run.Score[i], 25)
           /\ tool_run.Signal[i] = "SELL" <=> ScoreBelow(tool_run.Score[i], -25)
           /\ ~(ScoreAbove(tool_run.Score[i], 25) /\ ScoreBelow(tool_run.Score[i], -25))
           /\ ~ScoreDefined(tool_run.Score[i]) => tool_run.Signal[i] = "NONE"
           /\ tool_run.Score[i] \in {[root2 |-> R(625), rat |-> R(0)],
                                      [root2 |-> R(-625), rat |-> R(0)]}
                  => tool_run.Signal[i] = "NONE"

\* C18 witness: a Bollinger-Fibonacci table with an undefined score on its
\* first row, a score of exactly 25 on its last row, and no signal on either.
C18_Witness ==
    /\ ToolReported
    /\ tool_run.tool = "bollinger_fibonacci"
    /\ ~ScoreDefined(tool_run.Score[1])
    /\ tool_run.Signal[1] = "NONE"
    /\ tool_run.Score[Len(tool_run.Close)] = [root2 |-> R(625), rat |-> R(0)]
    /\ tool_run.Signal[Len(tool_run.Close)] = "NONE"

(***************************************************************************)
(* Concurrent comprehensive analyses.  The server may serve several        *)
(* generate_comprehensive_analysis_report calls whose loop passes          *)
(* interleave.  requests[r] holds the locals of call r: its symbol, the    *)
(* position i in the strategies list, and the sections and                 *)
(* strategy_details lists it appends to.  market is what the tools return  *)
(* for the symbol during the call.                                         *)
(***************************************************************************)
MaxRequests == 2

RequestIds == 1..MaxRequests

\* dict.pop(key, None): the value under key and the dict afterwards.
registry_pop(registry, key) ==
    [value |-> IF key \in DOMAIN registry THEN registry[key] ELSE "None",
     registry |-> [k \in DOMAIN registry \ {key} |-> registry[k]]]

\* dict.get(key): the value under key and the dict afterwards.
registry_get(registry, key) ==
    [value |-> IF key \in DOMAIN registry THEN registry[key] ELSE "None",
     registry |-> registry]

\* What the tools return for a symbol while one call runs: every tool
\* reports BUY; or the MACD-Donchian tool raises and the others report SELL;
\* a symbol without data gets error reports.
MarketViews(symbol) ==
    IF HasData(symbol)
    THEN {[k \in DOMAIN ToolOf |->
              [kind |-> "return",
               content |-> ReportContent(k, symbol, "BUY", R(1), "OUTPERFORMS Buy & Hold")]],
          [k \in DOMAIN ToolOf |->
              IF k = "macd_donchian" THEN [kind |-> "raise"]
              ELSE [kind |-> "return",
                    content |-> ReportContent(k, symbol, "SELL", R(-1),
                                              "UNDERPERFORMS Buy & Hold")]]}
    ELSE {[k \in DOMAIN ToolOf |-> [kind |-> "return", content |-> ErrorContent(symbol)]]}

\* The content a loop pass puts in its section.
SectionContent(registry, outcome, entry) ==
    IF entry.key \notin DOMAIN registry THEN <<[label |-> "not registered", value |-> entry.title]>>
    ELSE IF outcome[entry.key].kind = "raise"
    THEN <<[label |-> "Error executing", value |-> entry.title]>>
    ELSE outcome[entry.key].content

\* The call starts: the locals before the loop.
serve_begin(r) ==
    /\ r \notin DOMAIN requests
    /\ \E symbol \in Symbols : \E market \in MarketViews(symbol) :
          requests' = [q \in DOMAIN requests \cup {r} |->
                          IF q = r
                          THEN [kind |-> "running", symbol |-> symbol, market |-> market,
                                i |-> 1, sections |-> <<>>, strategy_details |-> <<>>]
                          ELSE requests[q]]
    /\ UNCHANGED <<data, frame, metrics, STRATEGY_FUNCTIONS, analysis, dual_ma, tool_run,
                   returned, wire, session, event_loop, threads, statement>>

\* One pass of the loop of call r.
serve_strategy(r) ==
    /\ r \in DOMAIN requests
    /\ requests[r].kind = "running"
    /\ requests[r].i <= Len(STRATEGIES)
    /\ LET entry == STRATEGIES[requests[r].i]
           got == registry_get(STRATEGY_FUNCTIONS, entry.key)
       IN  /\ STRATEGY_FUNCTIONS' = got.registry
           /\ requests' =
                 [requests EXCEPT
                    ![r].i = @ + 1,
                    ![r].sections =
                        Append(@, SectionContent(STRATEGY_FUNCTIONS, requests[r].market, entry)),
                    ![r].strategy_details =
                        Append(@, StrategyDetail(STRATEGY_FUNCTIONS, requests[r].market, entry))]
    /\ UNCHANGED <<data, frame, metrics, analysis, dual_ma, tool_run,
                   returned, wire, session, event_loop, threads, statement>>

\* The loop is over: the tally, the recommendation, and the return.
serve_return(r) ==
    /\ r \in DOMAIN requests
    /\ requests[r].kind = "running"
    /\ requests[r].i > Len(STRATEGIES)
    /\ LET details == requests[r].strategy_details
           buy_count == CountSignal(details, "BUY")
           sell_count == CountSignal(details, "SELL")
       IN  requests' =
               [q \in DOMAIN requests |->
                   IF q = r
                   THEN [kind |-> "returned",
                         symbol |-> requests[r].symbol,
                         market |-> requests[r].market,
                         i |-> requests[r].i,
                         sections |-> requests[r].sections,
                         strategy_details |-> details,
                         buy_count |-> buy_count,
                         sell_count |-> sell_count,
                         hold_count |-> CountSignal(details, "HOLD"),
                         recommendation |-> Recommendation(buy_count, sell_count)]
                   ELSE requests[q]]
    /\ UNCHANGED <<data, frame, metrics, STRATEGY_FUNCTIONS, analysis, dual_ma, tool_run,
                   returned, wire, session, event_loop, threads, statement>>

InitServing ==
    /\ EvaluatorIdle
    /\ RegistryIdle
    /\ DualMAIdle
    /\ ToolsIdle
    /\ ServingIdle
    /\ ClientIdle
    /\ StatementIdle

NextServing ==
    \/ add_all_performance_tools
    \/ \E r \in RequestIds : serve_begin(r)
    \/ \E r \in RequestIds : serve_strategy(r)
    \/ \E r \in RequestIds : serve_return(r)

SpecServing == InitServing /\ [][NextServing]_vars

(***************************************************************************)
(* Claims about concurrent analyses.                                       *)
(***************************************************************************)
\* The symbol a section's content is about.
SectionSymbols(content) ==
    {content[j].value : j \in {j \in 1..Len(content) : content[j].label \in {"Symbol", "Error"}}}

\* C21: a step of an analysis leaves STRATEGY_FUNCTIONS as it was (only the
\* add_*_tool functions write it), changes the locals of that analysis only,
\* and what an analysis collects is about its own symbol, however the
\* analyses interleave.
C21_RegistryReadOnly ==
    [][/\ requests' # requests => STRATEGY_FUNCTIONS' = STRATEGY_FUNCTIONS
       /\ Cardinality({r \in DOMAIN requests : requests'[r] # requests[r]}) <= 1
       /\ \A r \in DOMAIN requests' :
             \A i \in 1..Len(requests'[r].sections) :
                SectionSymbols(requests'[r].sections[i]) \subseteq {requests'[r].symbol}]_vars

\* C21 witness: two analyses of different symbols, both under way with the
\* full registry, one ahead of the other.
C21_Witness ==
    /\ DOMAIN requests = RequestIds
    /\ requests[1].symbol # requests[2].symbol
    /\ requests[1].kind = "returned"
    /\ requests[2].kind = "running"
    /\ requests[2].i = 2
    /\ DOMAIN STRATEGY_FUNCTIONS = DOMAIN ToolOf
    /\ \E i \in 1..Len(requests[1].sections) :
          SectionSymbols(requests[1].sections[i]) = {requests[1].symbol}

(***************************************************************************)
(* A second call of the evaluator on the table of the first.               *)
(***************************************************************************)
\* The caller's table after a call that adds the derived columns in place.
CallerTableInPlace(d) ==
    LET f == BacktestFrame(d)
    IN  [Close |-> d.Close, Signal |-> d.Signal,
         Daily_Return |-> f.Daily_Return, Position |-> f.Position,
         Strategy_Return |-> f.Strategy_Return]

\* data = data.copy(): the derived columns go to the copy, so the caller's
\* table after the call is the table before it.
CallerTable(d) == d

EvaluateAgain ==
    /\ metrics # NoMetrics
    /\ returned = NoReturned
    /\ returned' = <<calculate_strategy_performance_metrics(data)>>
    /\ data' = CallerTable(data)
    /\ UNCHANGED <<frame, metrics, STRATEGY_FUNCTIONS, analysis, dual_ma, tool_run,
                   requests, wire, session, event_loop, threads, statement>>

NextRepeat == Evaluate \/ EvaluateAgain

SpecRepeat == Init /\ [][NextRepeat]_vars

ScoreWindow ==
    IF tool_run.tool = "connors_zscore" THEN tool_run.args.zscore_window
    ELSE tool_run.args.window

\* C23: in each score-based tool the score is undefined on the first
\* window - 1 bars, no BUY or SELL is placed on them, and the backtest
\* position is flat (0) on every one of them.
C23_WarmUpFlat ==
    ToolReported =>
        \A i \in ToolBars :
           i < ScoreWindow =>
              /\ ~ScoreDefined(tool_run.Score[i])
              /\ tool_run.Signal[i] = "NONE"
              /\ Position(tool_run.Signal)[i] = R(0)

\* C23 witness: a MACD-Donchian table with a warm-up bar and a BUY or SELL
\* on a later bar.
C23_Witness ==
    /\ ToolReported
    /\ tool_run.tool = "macd_donchian"
    /\ ScoreWindow > 1
    /\ ~ScoreDefined(tool_run.Score[1])
    /\ Position(tool_run.Signal)[1] = R(0)
    /\ \E i \in ToolBars : i >= ScoreWindow /\ tool_run.Signal[i] # "NONE"

(***************************************************************************)
(* Claims about the extraction of the signal from a rendered report.       *)
(***************************************************************************)
\* Strategy i completed: its tool is registered and returned a report.
Completed(i) ==
    /\ STRATEGIES[i].key \in DOMAIN STRATEGY_FUNCTIONS
    /\ analysis.outcome[STRATEGIES[i].key].kind = "return"
    /\ analysis.outcome[STRATEGIES[i].key].content # ErrorContent(analysis.symbol)

\* C24: for every strategy that completes, the signal the aggregator extracts
\* from the rendered report with the "Current Signal:" pattern is the current
\* signal the strategy rendered, BUY, SELL or HOLD, for all four strategies.
C24_SignalRoundTrip ==
    Analysed =>
        \A i \in Listed :
           Completed(i) =>
              \E sg \in {"BUY", "SELL", "HOLD"}, e \in {R(1), R(-1)}, v \in Verdicts :
                 /\ analysis.outcome[STRATEGIES[i].key].content =
                        ReportContent(STRATEGIES[i].key, analysis.symbol, sg, e, v)
                 /\ extract_value(analysis.outcome[STRATEGIES[i].key].content,
                                  "Current Signal", "N/A") = sg
                 /\ analysis.strategy_details[i].signal = sg

\* C24 witness: the four strategies completed, and the extracted signals
\* are HOLD, SELL, HOLD, BUY.
C24_Witness ==
    /\ Analysed
    /\ \A i \in Listed : Completed(i)
    /\ [i \in Listed |-> analysis.strategy_details[i].signal] = <<"HOLD", "SELL", "HOLD", "BUY">>

(***************************************************************************)
(* Claims about the drawdowns.                                             *)
(***************************************************************************)
\* The curve never falls below an earlier value of itself.
NeverBelowPeak(cum) ==
    \A s \in 1..Len(cum), t \in 1..Len(cum) : s <= t => ~Less(cum[t], cum[s])

\* C25: strategy_max_drawdown and buyhold_max_drawdown are never positive,
\* and each is 0 exactly when its cumulative curve never falls below its
\* running maximum.
C25_DrawdownSign ==
    Returned =>
        /\ IsFinite(metrics.strategy_max_drawdown)
        /\ IsFinite(metrics.buyhold_max_drawdown)
        /\ metrics.strategy_max_drawdown[1] <= 0
        /\ metrics.buyhold_max_drawdown[1] <= 0
        /\ metrics.strategy_max_drawdown = R(0) <=> NeverBelowPeak(frame.Cumulative_Strategy)
        /\ metrics.buyhold_max_drawdown = R(0) <=> NeverBelowPeak(frame.Cumulative_BuyHold)

\* C25 witness: a short position held while the close doubles loses
\* everything (drawdown -100%) while buy and hold has no drawdown.
C25_Witness ==
    /\ Returned
    /\ metrics.strategy_max_drawdown = R(-1)
    /\ metrics.buyhold_max_drawdown = R(0)
    /\ ~NeverBelowPeak(frame.Cumulative_Strategy)
    /\ NeverBelowPeak(frame.Cumulative_BuyHold)

(***************************************************************************)
(* The client's strategy wrappers (src/stock_analyzer_bot/tools.py) and    *)
(* the binding of their parameters to the server tool's signature.  wire   *)
(* is the tool call in flight, and then what the server bound it to.  The  *)
(* MCP library that binds the arguments is not part of the repository: a   *)
(* call with a name the tool does not declare is either bound with that    *)
(* name dropped or rejected.                                               *)
(***************************************************************************)
\* The symbols a caller types.
TypedSymbols == {"AAPL", "aapl"}

\* symbol.strip().upper()
normalize_symbol(symbol) == IF symbol = "aapl" THEN "AAPL" ELSE symbol

\* The parameters each server strategy tool declares after symbol, with
\* their default values.
ServerDefaults ==
    [analyze_bollinger_fibonacci_performance |->
         [period |-> "1y", window |-> 20, num_std |-> 2, window_swing_points |-> 10],
     analyze_macd_donchian_performance |->
         [period |-> "1y", fast_period |-> 12, slow_period |-> 26, signal_period |-> 9,
          window |-> 20],
     analyze_connors_zscore_performance |->
         [period |-> "1y", rsi_period |-> 3, streak_period |-> 2, rank_period |-> 100,
          zscore_window |-> 20, connors_weight |-> "0.7", zscore_weight |-> "0.3"],
     analyze_dual_ma_strategy |->
         [period |-> "1y", short_period |-> 50, long_period |-> 200, ma_type |-> "EMA"]]

Declared(tool_name) == {"symbol"} \cup DOMAIN ServerDefaults[tool_name]

\* _call_finance_tool: the call is put on the wire.
call_finance_tool(wrapper, tool_name, parameters) ==
    /\ wire = NoWire
    /\ wire' = [kind |-> "call", wrapper |-> wrapper, tool_name |-> tool_name,
                parameters |-> parameters]
    /\ UNCHANGED <<data, frame, metrics, STRATEGY_FUNCTIONS, analysis, dual_ma, tool_run,
                   requests, returned, session, event_loop, threads, statement>>

bollinger_fibonacci_analysis ==
    \E symbol \in TypedSymbols, window \in 1..MaxPeriod, num_std \in {1, 2} :
        call_finance_tool("bollinger_fibonacci_analysis",
                          "analyze_bollinger_fibonacci_performance",
                          [symbol |-> normalize_symbol(symbol), period |-> "1y",
                           window |-> window, num_std |-> num_std,
                           window_swing_points |-> 10])

macd_donchian_analysis ==
    \E symbol \in TypedSymbols, donchian_period \in 1..MaxPeriod,
       macd_fast \in 1..MaxPeriod, macd_slow \in 1..MaxPeriod, macd_signal \in 1..MaxPeriod :
        call_finance_tool("macd_donchian_analysis",
                          "analyze_macd_donchian_performance",
                          [symbol |-> normalize_symbol(symbol), period |-> "1y",
                           donchian_period |-> donchian_period, macd_fast |-> macd_fast,
                           macd_slow |-> macd_slow, macd_signal |-> macd_signal])

connors_zscore_analysis ==
    \E symbol \in TypedSymbols, rsi_period \in 1..MaxPeriod,
       zscore_period \in 1..MaxPeriod :
        call_finance_tool("connors_zscore_analysis",
                          "analyze_connors_zscore_performance",
                          [symbol |-> normalize_symbol(symbol), period |-> "1y",
                           rsi_period |-> rsi_period, streak_period |-> 2,
                           rank_period |-> 100, zscore_period |-> zscore_period])

dual_moving_average_analysis ==
    \E symbol \in TypedSymbols, short_period \in 1..MaxPeriod,
       long_period \in 1..MaxPeriod, ma_type \in {"EMA", "SMA"} :
        call_finance_tool("dual_moving_average_analysis",
                          "analyze_dual_ma_strategy",
                          [symbol |-> normalize_symbol(symbol), period |-> "1y",
                           short_period |-> short_period, long_period |-> long_period,
                           ma_type |-> ma_type])

\* The arguments the tool function runs with: a declared name takes the
\* value sent under that name, or its default when none was sent.
BoundArguments(tool_name, parameters) ==
    [name \in Declared(tool_name) |->
        IF name \in DOMAIN parameters THEN parameters[name]
        ELSE ServerDefaults[tool_name][name]]

\* The server receives the call and binds it to the tool's signature.
server_bind ==
    /\ wire.kind = "call"
    /\ LET undeclared == DOMAIN wire.parameters \ Declared(wire.tool_name)
       IN  \/ wire' = [kind |-> "bound", wrapper |-> wire.wrapper,
                       tool_name |-> wire.tool_name,
                       parameters |-> wire.parameters,
                       arguments |-> BoundArguments(wire.tool_name, wire.parameters)]
           \/ /\ undeclared # {}
              /\ wire' = [kind |-> "rejected", wrapper |-> wire.wrapper,
                          tool_name |-> wire.tool_name,
                          parameters |-> wire.parameters]
    /\ UNCHANGED <<data, frame, metrics, STRATEGY_FUNCTIONS, analysis, dual_ma, tool_run,
                   requests, returned, session, event_loop, threads, statement>>

InitWire == InitServing

NextWire ==
    \/ bollinger_fibonacci_analysis
    \/ macd_donchian_analysis
    \/ connors_zscore_analysis
    \/ dual_moving_average_analysis
    \/ server_bind

SpecWire == InitWire /\ [][NextWire]_vars

\* C26: every parameter name a strategy wrapper sends is a parameter the
\* server tool declares, for all four strategies, so the call is bound and
\* the tool runs with the periods and windows the caller supplied.
C26_WrapperNamesDeclared ==
    /\ wire.kind # "none" => DOMAIN wire.parameters \subseteq Declared(wire.tool_name)
    /\ wire.kind # "rejected"
    /\ wire.kind = "bound" =>
          \A name \in DOMAIN wire.parameters :
             /\ name \in DOMAIN wire.arguments
             /\ wire.arguments[name] = wire.parameters[name]

(***************************************************************************)
(* MCPFinanceSession (src/stock_analyzer_bot/mcp_client.py).               *)
(*   session     the fields of the shared session object; _loop, _thread   *)
(*               and _lifecycle_future hold the number of an event loop,   *)
(*               0 for None; _lock holds the thread that has it, 0 if free *)
(*   event_loop  the event loops created so far, each with its thread:     *)
(*               running (run_forever has not been stopped), the handles   *)
(*               scheduled on it and not yet run, and the state of its     *)
(*               _session_lifecycle coroutine                              *)
(*   threads     the client threads: the method each is in, where it is in *)
(*               it, the future it waits on, and how its last call ended   *)
(***************************************************************************)
MaxCallers == 2

MaxLoops == 2

CallerIds == 1..MaxCallers

LoopIds == 1..MaxLoops

IdleThread == [pc |-> "idle", op |-> "none", future |-> "none", outcome |-> "none"]

\* with self._lock: the lock is taken whoever holds it.
LockIgnored(s) == TRUE

\* with self._lock: the lock can be taken when no thread holds it.
LockFree(s) == s._lock = 0

\* The method returns or raises: the thread is idle again.
Finish(t, outcome) ==
    [threads EXCEPT ![t] = [pc |-> "idle", op |-> threads[t].op, future |-> "none",
                            outcome |-> outcome]]

Goto(t, pc) == [threads EXCEPT ![t].pc = pc]

\* asyncio.run_coroutine_threadsafe(coro, loop) / loop.call_soon_threadsafe
Schedule(l, coro, owner) ==
    [event_loop EXCEPT ![l].ready = Append(@, [coro |-> coro, owner |-> owner])]

KernelUnchanged ==
    UNCHANGED <<data, frame, metrics, STRATEGY_FUNCTIONS, analysis, dual_ma, tool_run,
                requests, returned, wire, statement>>

\* call_tool, line 101, and _ensure_started, lines 48-49: the first test of
\* _started, made without the lock.
call_tool_enter(t) ==
    /\ threads[t].pc = "idle"
    /\ threads' = [threads EXCEPT ![t] =
                      [pc |-> IF session._started THEN "submit" ELSE "ensure_lock",
                       op |-> "call_tool", future |-> "none", outcome |-> "none"]]
    /\ UNCHANGED <<session, event_loop>>
    /\ KernelUnchanged

\* _ensure_started, line 50: with self._lock
ensure_acquire(t) ==
    /\ threads[t].pc = "ensure_lock"
    /\ LockFree(session)
    /\ session' = [session EXCEPT !._lock = t]
    /\ threads' = Goto(t, "ensure_locked")
    /\ UNCHANGED event_loop
    /\ KernelUnchanged

\* _ensure_started, lines 51-61, under the lock: the second test of _started,
\* the test of the server path, and the creation of the loop, of its thread
\* and of the lifecycle coroutine.
ensure_locked(t) ==
    /\ threads[t].pc = "ensure_locked"
    /\ \/ /\ session._started
          /\ session' = [session EXCEPT !._lock = 0]
          /\ threads' = Goto(t, "submit")
          /\ UNCHANGED event_loop
       \/ /\ ~session._started
          /\ session' = [session EXCEPT !._lock = 0]
          /\ threads' = Finish(t, "FileNotFoundError")
          /\ UNCHANGED event_loop
       \/ /\ ~session._started
          /\ Len(event_loop) < MaxLoops
          /\ LET l == Len(event_loop) + 1
             IN  /\ event_loop' =
                       Append(event_loop,
                              [running |-> TRUE,
                               ready |-> <<[coro |-> "lifecycle", owner |-> 0]>>,
                               lifecycle |-> "scheduled"])
                 /\ session' = [session EXCEPT !._loop = l, !._thread = l,
                                               !._ready_event = FALSE,
                                               !._lifecycle_future = l]
          /\ threads' = Goto(t, "ensure_wait")
    /\ KernelUnchanged

\* _ensure_started, lines 62-64: self._ready_event.wait() returns, then
\* _started = True, and the lock is released.
ensure_ready(t) ==
    /\ threads[t].pc = "ensure_wait"
    /\ session._ready_event
    /\ session' = [session EXCEPT !._started = TRUE, !._lock = 0]
    /\ threads' = Goto(t, "submit")
    /\ UNCHANGED event_loop
    /\ KernelUnchanged

\* call_tool, lines 102-105: assert self._loop is not None, then the
\* coroutine is scheduled on the loop, whatever the loop's state.
call_submit(t) ==
    /\ threads[t].pc = "submit"
    /\ IF session._loop = 0
       THEN /\ threads' = Finish(t, "AssertionError")
            /\ UNCHANGED event_loop
       ELSE /\ event_loop' = Schedule(session._loop, "call", t)
            /\ threads' = [threads EXCEPT ![t].pc = "call_wait", ![t].future = "pending"]
    /\ UNCHANGED session
    /\ KernelUnchanged

\* call_tool, line 106: future.result() returns or raises once the
\* coroutine has run.
call_result(t) ==
    /\ threads[t].pc = "call_wait"
    /\ threads[t].future \in {"result", "exception"}
    /\ threads' = Finish(t, IF threads[t].future = "result" THEN "returned" ELSE "raised")
    /\ UNCHANGED <<session, event_loop>>
    /\ KernelUnchanged

\* close, lines 113-114: the first test of _started, without the lock.
close_enter(t) ==
    /\ threads[t].pc = "idle"
    /\ threads' = [threads EXCEPT ![t] =
                      IF session._started
                      THEN [pc |-> "close_lock", op |-> "close", future |-> "none",
                            outcome |-> "none"]
                      ELSE [pc |-> "idle", op |-> "close", future |-> "none",
                            outcome |-> "returned"]]
    /\ UNCHANGED <<session, event_loop>>
    /\ KernelUnchanged

\* close, line 115: with self._lock
close_acquire(t) ==
    /\ threads[t].pc = "close_lock"
    /\ LockFree(session)
    /\ session' = [session EXCEPT !._lock = t]
    /\ threads' = Goto(t, "close_locked")
    /\ UNCHANGED event_loop
    /\ KernelUnchanged

\* close, lines 116-119: the second test of _started, then
\* _async_signal_shutdown is scheduled on the loop.
close_locked(t) ==
    /\ threads[t].pc = "close_locked"
    /\ IF ~session._started
       THEN /\ session' = [session EXCEPT !._lock = 0]
            /\ threads' = Finish(t, "returned")
            /\ UNCHANGED event_loop
       ELSE /\ event_loop' = Schedule(session._loop, "signal_shutdown", t)
            /\ threads' = [threads EXCEPT ![t].pc = "close_signal", ![t].future = "pending"]
            /\ UNCHANGED session
    /\ KernelUnchanged

\* close, line 120: future.result() of the shutdown signal.
close_signalled(t) ==
    /\ threads[t].pc = "close_signal"
    /\ threads[t].future = "result"
    /\ threads' = [threads EXCEPT ![t].pc = "close_lifecycle", ![t].future = "none"]
    /\ UNCHANGED <<session, event_loop>>
    /\ KernelUnchanged

\* close, lines 121-123: self._lifecycle_future.result() returns when the
\* lifecycle coroutine has ended, or raises what it raised; the exception
\* leaves close (and releases the lock) with no field reset.  Otherwise
\* loop.stop is scheduled.
close_lifecycle(t) ==
    /\ threads[t].pc = "close_lifecycle"
    /\ LET state == event_loop[session._lifecycle_future].lifecycle
       IN  \/ /\ state = "raised"
              /\ session' = [session EXCEPT !._lock = 0]
              /\ threads' = Finish(t, "raised")
              /\ UNCHANGED event_loop
           \/ /\ state = "done"
              /\ event_loop' = Schedule(session._loop, "stop", 0)
              /\ threads' = Goto(t, "close_join")
              /\ UNCHANGED session
    /\ KernelUnchanged

\* close, lines 124-128: self._thread.join(timeout=5) returns, then _loop,
\* _thread and _lifecycle_future are set to None.
close_join(t) ==
    /\ threads[t].pc = "close_join"
    /\ session' = [session EXCEPT !._loop = 0, !._thread = 0, !._lifecycle_future = 0]
    /\ threads' = Goto(t, "close_reset")
    /\ UNCHANGED event_loop
    /\ KernelUnchanged

\* close, lines 129-130: _started = False, and the lock is released.
close_reset(t) ==
    /\ threads[t].pc = "close_reset"
    /\ session' = [session EXCEPT !._started = FALSE, !._lock = 0]
    /\ threads' = Finish(t, "returned")
    /\ UNCHANGED event_loop
    /\ KernelUnchanged

\* The thread of loop l runs the next handle scheduled on it.
\*   lifecycle        _session_lifecycle up to its first wait: the server
\*                    connection is made and the session initialised (lines
\*                    68-76), or that raises (lines 77-82)
\*   call             _async_call_tool, lines 85-98
\*   signal_shutdown  _async_signal_shutdown, lines 108-110
\*   stop             loop.stop: run_forever returns and the thread ends
loop_run(l) ==
    /\ l \in DOMAIN event_loop
    /\ event_loop[l].running
    /\ event_loop[l].ready # <<>>
    /\ LET handle == Head(event_loop[l].ready)
           rest == [event_loop EXCEPT ![l].ready = Tail(@)]
       IN  CASE handle.coro = "lifecycle" ->
                  \/ /\ session' = [session EXCEPT !._session = "ClientSession",
                                                   !._shutdown_event = "clear",
                                                   !._ready_event = TRUE]
                     /\ event_loop' = [rest EXCEPT ![l].lifecycle = "waiting"]
                     /\ UNCHANGED threads
                  \/ /\ session' = [session EXCEPT !._session = "None",
                                                   !._shutdown_event = "None",
                                                   !._ready_event = TRUE]
                     /\ event_loop' = [rest EXCEPT ![l].lifecycle = "raised"]
                     /\ UNCHANGED threads
             [] handle.coro = "call" ->
                  /\ \E outcome \in (IF session._session = "None" THEN {"exception"}
                                     ELSE {"result", "exception"}) :
                        threads' = [threads EXCEPT ![handle.owner].future = outcome]
                  /\ event_loop' = rest
                  /\ UNCHANGED session
             [] handle.coro = "signal_shutdown" ->
                  /\ session' = [session EXCEPT !._shutdown_event =
                                     IF @ = "clear" THEN "set" ELSE @]
                  /\ threads' = [threads EXCEPT ![handle.owner].future = "result"]
                  /\ event_loop' = rest
             [] handle.coro = "stop" ->
                  /\ event_loop' = [rest EXCEPT ![l].running = FALSE]
                  /\ UNCHANGED <<session, threads>>
    /\ KernelUnchanged

\* _session_lifecycle, lines 76 and 80-82: the wait on the shutdown event
\* returns, the connection is closed, and the finally clause clears
\* _session and _shutdown_event.
lifecycle_exit(l) ==
    /\ l \in DOMAIN event_loop
    /\ event_loop[l].running
    /\ event_loop[l].lifecycle = "waiting"
    /\ session._shutdown_event = "set"
    /\ session' = [session EXCEPT !._session = "None", !._shutdown_event = "None"]
    /\ event_loop' = [event_loop EXCEPT ![l].lifecycle = "done"]
    /\ UNCHANGED threads
    /\ KernelUnchanged

InitSession ==
    /\ EvaluatorIdle
    /\ RegistryIdle
    /\ DualMAIdle
    /\ ToolsIdle
    /\ ServingIdle
    /\ StatementIdle
    /\ wire = NoWire
    /\ session = NewSession
    /\ event_loop = NoLoops
    /\ threads = [t \in CallerIds |-> IdleThread]

CallToolStep(t) ==
    \/ ensure_acquire(t)
    \/ ensure_locked(t)
    \/ ensure_ready(t)
    \/ call_submit(t)
    \/ call_result(t)

CloseStep(t) ==
    \/ close_acquire(t)
    \/ close_locked(t)
    \/ close_signalled(t)
    \/ close_lifecycle(t)
    \/ close_join(t)
    \/ close_reset(t)

LoopStep(l) == loop_run(l) \/ lifecycle_exit(l)

\* Threads that only call call_tool: nothing sets the shutdown event, so
\* the lifecycle coroutine never leaves its wait.
NextStartup ==
    \/ \E t \in CallerIds : call_tool_enter(t)
    \/ \E t \in CallerIds : CallToolStep(t)
    \/ \E l \in LoopIds : loop_run(l)

SpecStartup == InitSession /\ [][NextStartup]_vars

\* Threads that call call_tool and close.
NextSession ==
    \/ \E t \in CallerIds : call_tool_enter(t)
    \/ \E t \in CallerIds : close_enter(t)
    \/ \E t \in CallerIds : CallToolStep(t)
    \/ \E t \in CallerIds : CloseStep(t)
    \/ \E l \in LoopIds : loop_run(l)
    \/ \E l \in LoopIds : lifecycle_exit(l)

SpecSession == InitSession /\ [][NextSession]_vars

\* A thread inside a method goes on when it can, and a loop's thread runs
\* while its loop is running.
FairSession ==
    /\ SpecSession
    /\ \A t \in CallerIds : WF_vars(CallToolStep(t)) /\ WF_vars(CloseStep(t))
    /\ \A l \in LoopIds : WF_vars(LoopStep(l))

(***************************************************************************)
(* Claims about the session.                                               *)
(***************************************************************************)
\* A thread that is past _ensure_started in call_tool.
PastEnsure(t) ==
    /\ threads[t].op = "call_tool"
    /\ \/ threads[t].pc \in {"submit", "call_wait"}
       \/ threads[t].pc = "idle" /\ threads[t].outcome \in {"returned", "raised"}

\* C29: when several threads call call_tool on a session that was not
\* started, one event loop with its thread is created and the lifecycle
\* coroutine, which makes the server connection, is started once; a caller
\* submits its tool call only after the ready event was set.
C29_SingleStart ==
    /\ Len(event_loop) <= 1
    /\ \A t \in CallerIds :
          PastEnsure(t) =>
             /\ Len(event_loop) = 1
             /\ session._loop = 1
             /\ session._ready_event
             /\ session._started
             /\ event_loop[1].lifecycle # "scheduled"
    /\ \A l \in DOMAIN event_loop :
          \A h \in 1..Len(event_loop[l].ready) :
             event_loop[l].ready[h].coro = "call" => session._ready_event

\* C29 witness: every thread has passed _ensure_started and waits for its
\* tool call on the one loop, whose session is connected.
C29_Witness ==
    /\ \A t \in CallerIds : threads[t].pc = "call_wait"
    /\ Len(event_loop) = 1
    /\ Len(event_loop[1].ready) = MaxCallers
    /\ session._session = "ClientSession"

\* C27: a close() that finds the session started, after a lifecycle whose
\* connection failed included, ends by returning and leaves the session not
\* started, with no loop and no thread.
C27_CloseAfterFailedStart ==
    [][\A t \in CallerIds :
          (threads[t].op = "close" /\ threads[t].pc # "idle" /\ threads'[t].pc = "idle")
             => /\ threads'[t].outcome = "returned"
                /\ ~session'._started
                /\ session'._loop = 0
                /\ session'._thread = 0]_vars

\* C28: a call_tool that has submitted its tool call eventually returns or
\* raises, also when close runs at the same time.
C28_CallToolReturns ==
    \A t \in CallerIds : (threads[t].pc = "call_wait") ~> (threads[t].pc = "idle")

(***************************************************************************)
(* _download_statement of fundamental_analysis.py: the fetchers of a kind  *)
(* of statement are tried in the order of fetch_plan.  What a fetcher of   *)
(* the yfinance Ticker does is an input: it returns a DataFrame with       *)
(* content, an empty DataFrame, something that is no DataFrame, or raises  *)
(* an Exception.                                                           *)
(***************************************************************************)
StatementKinds == {"income", "balance", "cash"}

FetcherOutcomes == {"DataFrame", "empty DataFrame", "None", "Exception"}

\* The labels of fetch_plan, in its order.
fetch_plan(kind) ==
    CASE kind = "income" ->
            <<"income_stmt", "get_income_stmt_annual", "financials",
              "quarterly_income_stmt">>
      [] kind = "balance" ->
            <<"balance_sheet", "get_balance_sheet_annual",
              "quarterly_balance_sheet">>
      [] kind = "cash" ->
            <<"cash_flow", "cashflow", "get_cash_flow_annual",
              "quarterly_cashflow">>
      [] OTHER -> <<>>

PlanLabels(kind) == {fetch_plan(kind)[i] : i \in 1..Len(fetch_plan(kind))}

\* The Ticker objects: what each fetcher of the kind does when called.
Tickers(kind) == [PlanLabels(kind) -> FetcherOutcomes]

is_statement_any_frame(df) == df \in {"DataFrame", "empty DataFrame"}

\* isinstance(df, pd.DataFrame) and not df.empty
is_statement(df) == df = "DataFrame"

\* The loop over fetch_plan from its i-th entry, and the return after it.
RECURSIVE try_fetchers(_, _, _)
try_fetchers(plan, ticker, i) ==
    IF i > Len(plan)
    THEN [frame |-> "empty DataFrame", label |-> "none"]
    ELSE LET df == ticker[plan[i]]
         IN  IF df = "Exception"
             THEN try_fetchers(plan, ticker, i + 1)
             ELSE IF is_statement(df)
                  THEN [frame |-> df, label |-> plan[i]]
                  ELSE try_fetchers(plan, ticker, i + 1)

download_statement(ticker, kind) == try_fetchers(fetch_plan(kind), ticker, 1)

\* A call of _download_statement, as made for each statement of a report.
DownloadStatement ==
    \E kind \in StatementKinds :
       \E ticker \in Tickers(kind) :
          /\ statement' = [kind |-> kind, ticker |-> ticker,
                           result |-> download_statement(ticker, kind)]
          /\ UNCHANGED <<data, frame, metrics, STRATEGY_FUNCTIONS, analysis,
                         dual_ma, tool_run, requests, returned, wire,
                         session, event_loop, threads>>

InitStatement == InitSession

NextStatement == DownloadStatement

SpecStatement == InitStatement /\ [][NextStatement]_vars

\* The places in the plan whose fetcher returns a DataFrame with content.
Delivering(kind, ticker) ==
    {i \in 1..Len(fetch_plan(kind)) : ticker[fetch_plan(kind)[i]] = "DataFrame"}

\* C30: _download_statement returns what the first fetcher of the plan that
\* returns a non-empty DataFrame returned; fetchers that raise or return an
\* empty frame or no frame are passed over; when no fetcher delivers, the
\* result is the empty DataFrame.
C30_FirstNonEmptyStatement ==
    statement # NoStatement =>
       LET delivering == Delivering(statement.kind, statement.ticker)
       IN  IF delivering = {}
           THEN statement.result = [frame |-> "empty DataFrame", label |-> "none"]
           ELSE LET first == CHOOSE i \in delivering : \A j \in delivering : i <= j
                IN  statement.result =
                       [frame |-> "DataFrame",
                        label |-> fetch_plan(statement.kind)[first]]

\* C30 witness: the first three fetchers of the income statement raise,
\* return an empty frame and return None, and the fourth one delivers.
C30_Witness ==
    /\ statement # NoStatement
    /\ statement.kind = "income"
    /\ statement.ticker["income_stmt"] = "Exception"
    /\ statement.ticker["get_income_stmt_annual"] = "empty DataFrame"
    /\ statement.ticker["financials"] = "None"
    /\ statement.ticker["quarterly_income_stmt"] = "DataFrame"
    /\ statement.result.label = "quarterly_income_stmt"

====
